---- MODULE Spec2Model ----
(***************************************************************************)
(* Netflix Top 10 collector: the fetch orchestrator (TSV primary, HTML     *)
(* fallback), the structured-export parser, the validators, the rankings   *)
(* repository and the Lambda handler that ties them together.              *)
(*                                                                         *)
(* Python str values are modelled as sequences of one-character strings,   *)
(* so that comparison, lower-casing and slug building are computed         *)
(* character by character as Python computes them.                         *)
(***************************************************************************)
EXTENDS Integers, Sequences, FiniteSets, TLC

VARIABLES
    pc,            \* control point of the running call
    tsv_rows,      \* rows csv.DictReader yields for the export text
    target_week,   \* target_week argument of _parse_countries_tsv
    http_tsv,      \* outcome of session.get / raise_for_status on the export URL
    html_outcome,  \* outcome of fetch_all_countries
    errors,        \* fetch_rankings' local list of error messages
    calls,         \* sources fetch_rankings has attempted so far, in order
    result,        \* value returned by the running call
    env_uri,       \* os.environ.get("MONGODB_URI"); None when the variable is unset
    fetched,       \* the ScrapeResult fetch_rankings returns to lambda_handler
    mongo_fault,   \* the storage call that raises PyMongoError in this run, if any
    audit_fault,   \* whether the audit write of _finish_run raises PyMongoError
    rankings_coll, \* documents of the weekly_rankings collection, in insertion order
    runs_coll,     \* documents of the scrape_runs collection, in insertion order
    indexes,       \* names of the indexes created on weekly_rankings
    save_args,     \* arguments of the save_rankings calls made so far, in order
    html_pages,    \* outcome of each page request of the fallback sweep, in request order
    client,        \* mongo_client._client: the held MongoClient, None when there is none
    open_clients   \* the MongoClient objects created and not yet closed

\* The variables of lambda_handler and of the repository.
handlerVars ==
    <<env_uri, fetched, mongo_fault, audit_fault, rankings_coll, runs_coll, indexes, save_args>>

\* The page sweep of the fallback and the module state of mongo_client.
moduleVars ==
    <<html_pages, client, open_clients>>

vars ==
    <<pc, tsv_rows, target_week, http_tsv, html_outcome, errors, calls, result,
      env_uri, fetched, mongo_fault, audit_fault, rankings_coll, runs_coll, indexes, save_args,
      html_pages, client, open_clients>>

----------------------------------------------------------------------------
(* Python str and None *)

\* The characters used by the model, in code-point order.
Chars ==
    <<" ","+","-",".","/","0","1","2","3","4","5","6","7","8","9",":","A","B","C","D","E","F","G","H","I","J","K","L","M","N","O","P","Q","R","S","T","U","V","W","X","Y","Z","_","a","b","c","d","e","f","g","h","i","j","k","l","m","n","o","p","q","r","s","t","u","v","w","x","y","z">>

CharSet == {Chars[i] : i \in 1..Len(Chars)}

\* Position of a character in code-point order (order-isomorphic to ord()).
Ord == [c \in CharSet |-> CHOOSE i \in 1..Len(Chars) : Chars[i] = c]

\* Python's None: a value that no str (sequence of single characters) equals.
None == <<"None">>

\* The handler and the store at rest: a call of the fetchers alone touches neither.
HandlerIdle ==
    /\ env_uri = None
    /\ fetched = None
    /\ mongo_fault = "none"
    /\ audit_fault = FALSE
    /\ rankings_coll = <<>>
    /\ runs_coll = <<>>
    /\ indexes = {}
    /\ save_args = <<>>

\* No page sweep has run and mongo_client holds no client.
ModuleIdle ==
    /\ html_pages = <<>>
    /\ client = None
    /\ open_clients = {}

\* bool(value) for a value that is a str or None.
Truthy(value) == value # None /\ value # <<>>

\* a < b for two str values: lexicographic by code point.
StrLess(a, b) ==
    \E i \in 1..Len(b) :
        /\ i <= Len(a) + 1
        /\ \A j \in 1..(i - 1) : a[j] = b[j]
        /\ (i <= Len(a) => Ord[a[i]] < Ord[b[i]])

\* c.lower() for one character.
LowerChar(c) ==
    IF Ord[c] >= Ord["A"] /\ Ord[c] <= Ord["Z"]
    THEN Chars[Ord[c] - Ord["A"] + Ord["a"]]
    ELSE c

\* s.lower()
Lower(s) == [i \in 1..Len(s) |-> LowerChar(s[i])]

\* s.replace(old, new) for a single character old; new is a str.
RECURSIVE Replace(_, _, _)
Replace(s, old, new) ==
    IF s = <<>> THEN <<>>
    ELSE (IF Head(s) = old THEN new ELSE <<Head(s)>>) \o Replace(Tail(s), old, new)

IsDigit(c) == Ord[c] >= Ord["0"] /\ Ord[c] <= Ord["9"]

\* s.strip() restricted to the blank of the alphabet.
RECURSIVE Strip(_)
Strip(s) ==
    IF s = <<>> THEN s
    ELSE IF Head(s) = " " THEN Strip(Tail(s))
    ELSE IF s[Len(s)] = " " THEN Strip(SubSeq(s, 1, Len(s) - 1))
    ELSE s

\* Value of a str of decimal digits.
RECURSIVE DigitsValue(_)
DigitsValue(s) ==
    IF s = <<>> THEN 0
    ELSE 10 * DigitsValue(SubSeq(s, 1, Len(s) - 1)) + (Ord[s[Len(s)]] - Ord["0"])

\* Whether int() accepts the unsigned body: digits, single underscores between them.
IntBodyOk(s) ==
    /\ s # <<>>
    /\ \A i \in 1..Len(s) : IsDigit(s[i]) \/ s[i] = "_"
    /\ s[1] # "_" /\ s[Len(s)] # "_"
    /\ \A i \in 1..(Len(s) - 1) : ~(s[i] = "_" /\ s[i + 1] = "_")

----------------------------------------------------------------------------
(* src/config.py *)

TRACKED_COUNTRIES ==
    (<<"S","o","u","t","h"," ","K","o","r","e","a">>
        :> <<"s","o","u","t","h","-","k","o","r","e","a">>) @@
    (<<"H","o","n","g"," ","K","o","n","g">>
        :> <<"h","o","n","g","-","k","o","n","g">>) @@
    (<<"T","a","i","w","a","n">>
        :> <<"t","a","i","w","a","n">>) @@
    (<<"J","a","p","a","n">>
        :> <<"j","a","p","a","n">>) @@
    (<<"T","h","a","i","l","a","n","d">>
        :> <<"t","h","a","i","l","a","n","d">>) @@
    (<<"V","i","e","t","n","a","m">>
        :> <<"v","i","e","t","n","a","m">>) @@
    (<<"P","h","i","l","i","p","p","i","n","e","s">>
        :> <<"p","h","i","l","i","p","p","i","n","e","s">>) @@
    (<<"I","n","d","o","n","e","s","i","a">>
        :> <<"i","n","d","o","n","e","s","i","a">>) @@
    (<<"U","n","i","t","e","d"," ","S","t","a","t","e","s">>
        :> <<"u","n","i","t","e","d","-","s","t","a","t","e","s">>) @@
    (<<"C","a","n","a","d","a">>
        :> <<"c","a","n","a","d","a">>) @@
    (<<"B","r","a","z","i","l">>
        :> <<"b","r","a","z","i","l">>) @@
    (<<"M","e","x","i","c","o">>
        :> <<"m","e","x","i","c","o">>) @@
    (<<"U","n","i","t","e","d"," ","K","i","n","g","d","o","m">>
        :> <<"u","n","i","t","e","d","-","k","i","n","g","d","o","m">>) @@
    (<<"G","e","r","m","a","n","y">>
        :> <<"g","e","r","m","a","n","y">>) @@
    (<<"F","r","a","n","c","e">>
        :> <<"f","r","a","n","c","e">>) @@
    (<<"S","p","a","i","n">>
        :> <<"s","p","a","i","n">>) @@
    (<<"I","t","a","l","y">>
        :> <<"i","t","a","l","y">>) @@
    (<<"A","u","s","t","r","a","l","i","a">>
        :> <<"a","u","s","t","r","a","l","i","a">>)

----------------------------------------------------------------------------
(* src/fetchers/tsv_fetcher.py *)

CATEGORY_MAP ==
    (<<"F","i","l","m","s">> :> <<"f","i","l","m","s">>) @@
    (<<"T","V">> :> <<"t","v">>)

\* dict.get(key, default)
DictGet(d, key, default) == IF key \in DOMAIN d THEN d[key] ELSE default

\* A slug that keeps the blanks of the name.
CountrySlugKeepsBlanks(name) == Replace(Lower(name), ".", <<>>)

\* _country_slug: lower-case, blanks to hyphens, dots removed.
CountrySlug(name) == Replace(Replace(Lower(name), " ", <<"-">>), ".", <<>>)

\* A lenient reading that keeps the digits of any str, whatever stands between them.
ParseIntDigitsAnywhere(value) ==
    IF value = None THEN 0 ELSE DigitsValue(SelectSeq(value, IsDigit))

\* _parse_int: int(value), 0 on ValueError (malformed) or TypeError (None).
ParseInt(value) ==
    IF value = None THEN 0
    ELSE LET t == Strip(value)
             signed == t # <<>> /\ t[1] \in {"+", "-"}
             body == IF signed THEN Tail(t) ELSE t
         IN IF ~IntBodyOk(body) THEN 0
            ELSE LET n == DigitsValue(SelectSeq(body, IsDigit))
                 IN IF signed /\ t[1] = "-" THEN 0 - n ELSE n

\* Outcome of a call: a returned value, or a raised exception (by class name).
Returned(value) == [raised |-> FALSE, exc |-> "", value |-> value]
Raised(exc) == [raised |-> TRUE, exc |-> exc, value |-> <<>>]

\* One row as csv.DictReader yields it (the columns the parser reads). A line
\* with fewer fields than the header yields None for the missing columns.
Row(country_name, week, category, weekly_rank, show_title, cumulative) ==
    [country_name |-> country_name, week |-> week, category |-> category,
     weekly_rank |-> weekly_rank, show_title |-> show_title,
     cumulative_weeks_in_top_10 |-> cumulative]

\* tracked_names = set(TRACKED_COUNTRIES.keys())
tracked_names == DOMAIN TRACKED_COUNTRIES

\* grouped[key].append(row) on a defaultdict(list)
DictAppend(grouped, key, row) ==
    IF key \in DOMAIN grouped
    THEN [grouped EXCEPT ![key] = Append(@, row)]
    ELSE grouped @@ (key :> <<row>>)

\* The state of the first pass before any row: no group, latest_week = "",
\* no exception raised.
FirstPassInit == [grouped |-> <<>>, latest_week |-> <<>>, raised |-> ""]

\* The loop body without the tracked-country test.
FirstPassStepKeepsUntracked(st, row, target) ==
    LET week == row.week
        country_name == row.country_name
        latest == IF target = None /\ StrLess(st.latest_week, week) THEN week ELSE st.latest_week
    IN  IF target = None /\ week = None THEN [st EXCEPT !.raised = "TypeError"]
        ELSE IF Truthy(target) /\ week # target THEN [st EXCEPT !.latest_week = latest]
        ELSE [grouped |-> DictAppend(st.grouped, <<week, country_name, row.category>>, row),
              latest_week |-> latest, raised |-> st.raised]

\* One iteration of the first-pass loop over the rows. With no target week,
\* "week > latest_week" raises TypeError when the row has no week column.
FirstPassStep(st, row, target) ==
    LET week == row.week
        country_name == row.country_name
        latest == IF target = None /\ StrLess(st.latest_week, week)
                  THEN week ELSE st.latest_week
    IN  IF target = None /\ week = None
        THEN [st EXCEPT !.raised = "TypeError"]
        ELSE IF Truthy(target) /\ week # target
        THEN [st EXCEPT !.latest_week = latest]
        ELSE IF country_name \notin tracked_names
        THEN [st EXCEPT !.latest_week = latest]
        ELSE [grouped |-> DictAppend(st.grouped, <<week, country_name, row.category>>, row),
              latest_week |-> latest,
              raised |-> st.raised]

\* The first-pass loop: for row in reader, left when an iteration raises.
RECURSIVE FirstPass(_, _, _)
FirstPass(rows, target, st) ==
    IF rows = <<>> \/ st.raised # "" THEN st
    ELSE FirstPass(Tail(rows), target, FirstPassStep(st, Head(rows), target))

\* The second pass without the latest-week filter.
LatestFilterKeepsAll(st, target) == st.grouped

\* With no target week, keep the groups of latest_week only.
LatestFilter(st, target) ==
    IF target = None
    THEN [key \in {k \in DOMAIN st.grouped : k[1] = st.latest_week} |-> st.grouped[key]]
    ELSE st.grouped

\* Tuple comparison of two group keys (week, country_name, category).
KeyLess(a, b) ==
    \/ StrLess(a[1], b[1])
    \/ a[1] = b[1] /\ StrLess(a[2], b[2])
    \/ a[1] = b[1] /\ a[2] = b[2] /\ StrLess(a[3], b[3])

\* sorted(grouped.items()): the keys in ascending order (keys are distinct, so
\* the i-th is the one with i - 1 smaller keys).
SortedKeys(keys) ==
    [i \in 1..Cardinality(keys) |->
        CHOOSE k \in keys : Cardinality({o \in keys : KeyLess(o, k)}) = i - 1]

\* The sort key of a member row: _parse_int(r["weekly_rank"]).
RankKey(row) == ParseInt(row.weekly_rank)

\* Insert row before the first element whose key is not smaller: rows of equal
\* key come out in reverse order of appearance.
RECURSIVE InsertByRankBeforeEqual(_, _)
InsertByRankBeforeEqual(sortedRows, row) ==
    IF sortedRows = <<>> THEN <<row>>
    ELSE IF RankKey(Head(sortedRows)) < RankKey(row)
    THEN <<Head(sortedRows)>> \o InsertByRankBeforeEqual(Tail(sortedRows), row)
    ELSE <<row>> \o sortedRows

\* Insert row after every element whose key is not greater (keeps sorted() stable).
RECURSIVE InsertByRank(_, _)
InsertByRank(sortedRows, row) ==
    IF sortedRows = <<>> THEN <<row>>
    ELSE IF RankKey(Head(sortedRows)) <= RankKey(row)
    THEN <<Head(sortedRows)>> \o InsertByRank(Tail(sortedRows), row)
    ELSE <<row>> \o sortedRows

\* The member rows left in their order of appearance.
SortedByRankOmitted(rows) == rows

\* sorted(rows, key=lambda r: _parse_int(r["weekly_rank"]))
RECURSIVE SortedByRank(_)
SortedByRank(rows) ==
    IF rows = <<>> THEN <<>>
    ELSE InsertByRank(SortedByRank(SubSeq(rows, 1, Len(rows) - 1)), rows[Len(rows)])

\* RankingEntry built from one row.
RankingEntry(row) ==
    [rank |-> ParseInt(row.weekly_rank),
     title |-> row.show_title,
     weeks_in_top_10 |-> ParseInt(row.cumulative_weeks_in_top_10),
     hours_viewed |-> 0]

\* CATEGORY_MAP.get(category, category.lower())
CategorySlug(category) == DictGet(CATEGORY_MAP, category, Lower(category))

\* CountryRanking built from one group.
CountryRanking(key, rows) ==
    LET sortedRows == SortedByRank(rows)
    IN  [week |-> key[1],
         country |-> CountrySlug(key[2]),
         country_name |-> key[2],
         category |-> CategorySlug(key[3]),
         source |-> "tsv",
         rankings |-> [i \in 1..Len(sortedRows) |-> RankingEntry(sortedRows[i])]]

\* _parse_countries_tsv(tsv_text, target_week) on the rows of tsv_text: the
\* tuple it returns, or the exception its first pass raises. (Rows without a
\* week column are modelled for target_week = None only.)
ParseCountriesTsv(rows, target) ==
    LET firstPass == FirstPass(rows, target, FirstPassInit)
        retained == LatestFilter(firstPass, target)
        ordered == SortedKeys(DOMAIN retained)
    IN  IF firstPass.raised # "" THEN Raised(firstPass.raised)
        ELSE Returned([i \in 1..Len(ordered) |->
                          CountryRanking(ordered[i], retained[ordered[i]])])

----------------------------------------------------------------------------
(* Inputs of the parser specification *)

\* Most rows of one export text.
MaxRows == 3

W_2026_01_25 == <<"2","0","2","6","-","0","1","-","2","5">>
W_2026_02_01 == <<"2","0","2","6","-","0","2","-","0","1">>
Japan == <<"J","a","p","a","n">>
HongKong == <<"H","o","n","g"," ","K","o","n","g">>
Peru == <<"P","e","r","u">>
Films == <<"F","i","l","m","s">>
TV == <<"T","V">>
films == <<"f","i","l","m","s">>

ParseWeeks == {W_2026_01_25, W_2026_02_01}
ParseCountries == {Japan, HongKong, Peru}
ParseCategories == {Films, TV, films}
ParseTargets == {None, <<>>, W_2026_02_01}

ParseRowDomain ==
    {Row(c, w, k, <<"1">>, <<"A">>, <<"1">>) :
        c \in ParseCountries, w \in ParseWeeks, k \in ParseCategories}

\* The set of the elements of a sequence.
Range(s) == {s[i] : i \in 1..Len(s)}

\* The sequences over S of length at most n.
SeqsUpTo(S, n) == UNION {[1..m -> S] : m \in 0..n}

InitParse ==
    /\ pc = "parse"
    /\ tsv_rows \in SeqsUpTo(ParseRowDomain, MaxRows)
    /\ target_week \in ParseTargets
    /\ http_tsv = "ok"
    /\ html_outcome = None
    /\ ModuleIdle
    /\ errors = <<>>
    /\ calls = <<>>
    /\ result = None
    /\ HandlerIdle

\* A call of _parse_countries_tsv(tsv_text, target_week).
ParseCall ==
    /\ pc = "parse"
    /\ result' = ParseCountriesTsv(tsv_rows, target_week)
    /\ pc' = "parsed"
    /\ UNCHANGED <<tsv_rows, target_week, http_tsv, html_outcome, errors, calls>>
    /\ UNCHANGED moduleVars
    /\ UNCHANGED handlerVars

NextParse == ParseCall

SpecParse == InitParse /\ [][NextParse]_vars

----------------------------------------------------------------------------
(* Inputs of the full-week specification: exports that hold, for each of some
   tracked countries and each of the two categories, the MAX_RANK rows of the
   latest week, in several row orders, with or without rows of an older week
   and of an untracked country *)

\* src/validation/validators.py: the size of a complete list.
MAX_RANK == 10

UnitedStates == <<"U","n","i","t","e","d"," ","S","t","a","t","e","s">>

\* str(n) for a natural number n.
RECURSIVE IntToStr(_)
IntToStr(n) ==
    IF n < 10 THEN <<Chars[Ord["0"] + n]>>
    ELSE IntToStr(n \div 10) \o <<Chars[Ord["0"] + (n % 10)]>>

FullCountrySeq == <<UnitedStates, Japan, HongKong>>
FullCategorySeq == <<Films, TV>>

\* The orders in which the ranks 1..MAX_RANK of one list appear in the export.
RankOrders ==
    {[i \in 1..MAX_RANK |-> i],
     [i \in 1..MAX_RANK |-> MAX_RANK + 1 - i],
     [i \in 1..MAX_RANK |-> ((i * 3) % MAX_RANK) + 1]}

\* The row of rank n of one list.
FullRow(c, k, n) == Row(c, W_2026_02_01, k, IntToStr(n), <<"T">> \o IntToStr(n), <<"2">>)

\* Rows that are not part of a latest-week list of a tracked country.
ExtraRowSeq ==
    <<Row(Japan, W_2026_01_25, Films, <<"1">>, <<"O">>, <<"1">>),
      Row(Peru, W_2026_02_01, TV, <<"1">>, <<"P">>, <<"1">>),
      Row(Peru, W_2026_01_25, Films, <<"2">>, <<"Q">>, <<"1">>)>>

\* The export: the extra rows, then the lists either one after the other
\* ("by_list") or rank position by rank position ("by_position").
FullExport(countries, order, layout, extras) ==
    LET cs == SelectSeq(FullCountrySeq, LAMBDA c : c \in countries)
        nLists == Len(cs) * Len(FullCategorySeq)
        country(g) == cs[((g - 1) \div Len(FullCategorySeq)) + 1]
        category(g) == FullCategorySeq[((g - 1) % Len(FullCategorySeq)) + 1]
        listOf(x) == IF layout = "by_list" THEN ((x - 1) \div MAX_RANK) + 1
                                           ELSE ((x - 1) % nLists) + 1
        posOf(x) == IF layout = "by_list" THEN ((x - 1) % MAX_RANK) + 1
                                          ELSE ((x - 1) \div nLists) + 1
    IN  SelectSeq(ExtraRowSeq, LAMBDA r : r \in extras)
        \o [x \in 1..(nLists * MAX_RANK) |->
                FullRow(country(listOf(x)), category(listOf(x)), order[posOf(x)])]

InitFull ==
    /\ pc = "parse"
    /\ \E countries \in (SUBSET Range(FullCountrySeq)) \ {{}} :
       \E order \in RankOrders :
       \E layout \in {"by_list", "by_position"} :
       \E extras \in SUBSET Range(ExtraRowSeq) :
           tsv_rows = FullExport(countries, order, layout, extras)
    /\ target_week = None
    /\ http_tsv = "ok"
    /\ html_outcome = None
    /\ ModuleIdle
    /\ errors = <<>>
    /\ calls = <<>>
    /\ result = None
    /\ HandlerIdle

SpecFull == InitFull /\ [][NextParse]_vars

----------------------------------------------------------------------------
(* Inputs of the tracked-country specification: exports whose country names
   are a key of the table, the same name in lower case, or another country *)

\* Most rows of one export text.
MaxTrackedRows == 3

japan == <<"j","a","p","a","n">>

TrackedRowDomain ==
    {Row(c, w, Films, <<"1">>, <<"A">>, <<"1">>) :
        c \in {Japan, japan, Peru}, w \in ParseWeeks}

InitTracked ==
    /\ pc = "parse"
    /\ tsv_rows \in SeqsUpTo(TrackedRowDomain, MaxTrackedRows)
    /\ target_week \in {None, W_2026_02_01}
    /\ http_tsv = "ok"
    /\ html_outcome = None
    /\ ModuleIdle
    /\ errors = <<>>
    /\ calls = <<>>
    /\ result = None
    /\ HandlerIdle

SpecTracked == InitTracked /\ [][NextParse]_vars

----------------------------------------------------------------------------
(* Inputs of the country-slug specification: exports of one week whose rows
   name any of the tracked countries *)

\* Most rows of one export text.
MaxSlugRows == 2

SlugRowDomain ==
    {Row(c, W_2026_02_01, Films, <<"1">>, <<"A">>, <<"1">>) : c \in tracked_names}

InitSlug ==
    /\ pc = "parse"
    /\ tsv_rows \in SeqsUpTo(SlugRowDomain, MaxSlugRows)
    /\ target_week = None
    /\ http_tsv = "ok"
    /\ html_outcome = None
    /\ ModuleIdle
    /\ errors = <<>>
    /\ calls = <<>>
    /\ result = None
    /\ HandlerIdle

SpecSlug == InitSlug /\ [][NextParse]_vars

----------------------------------------------------------------------------
(* Inputs of the numeric-field specification: exports of one week whose rows
   differ in the text of weekly_rank and cumulative_weeks_in_top_10 *)

\* Most rows of one export text.
MaxNumericRows == 3

\* Texts of a numeric column: empty, not a number, a decimal fraction, a plain
\* integer, a negative integer, an integer between blanks.
NumericTexts ==
    {<<>>, <<"x">>, <<"1", ".", "5">>, <<"1", "0">>, <<"-", "3">>,
     <<" ", "7", " ">>}

\* csv.DictReader fills the columns a short line lacks with None (restval):
\* a line that ends before weekly_rank has neither title nor cumulative weeks.
NumericRowDomain ==
    {Row(Japan, W_2026_02_01, Films, r, <<"A">>, <<"3">>) : r \in NumericTexts}
    \cup {Row(Japan, W_2026_02_01, Films, <<"1">>, <<"A">>, c) : c \in NumericTexts \cup {None}}
    \cup {Row(Japan, W_2026_02_01, Films, None, None, None)}
    \cup {Row(Japan, W_2026_02_01, TV, r, <<"A">>, <<"3">>) : r \in {<<"1">>, <<"2">>}}

InitNumeric ==
    /\ pc = "parse"
    /\ tsv_rows \in SeqsUpTo(NumericRowDomain, MaxNumericRows)
    /\ target_week = None
    /\ http_tsv = "ok"
    /\ html_outcome = None
    /\ ModuleIdle
    /\ errors = <<>>
    /\ calls = <<>>
    /\ result = None
    /\ HandlerIdle

SpecNumeric == InitNumeric /\ [][NextParse]_vars

----------------------------------------------------------------------------
(* src/fetchers/tsv_fetcher.py: fetch_latest_week *)

\* What the download of the export can do: session.get raises, raise_for_status
\* raises on a non-200 status, the body lacks the header columns (row["week"]
\* raises KeyError on its first row), or the body is an export with the header.
HttpTsvOutcomes == {"ConnectionError", "Timeout", "HTTPError", "unexpected_body", "ok"}

\* fetch_latest_week(session, config)
FetchLatestWeek(http, rows) ==
    IF http \in {"ConnectionError", "Timeout"} THEN Raised(http)
    ELSE IF http = "HTTPError" THEN Raised("HTTPError")
    ELSE IF http = "unexpected_body" THEN Raised("KeyError")
    ELSE ParseCountriesTsv(rows, None)

----------------------------------------------------------------------------
(* src/fetchers/orchestrator.py: fetch_rankings *)

\* The exception classes that can reach fetch_rankings; all derive from Exception.
ExceptionSubclasses ==
    {"ConnectionError", "Timeout", "HTTPError", "KeyError", "TypeError", "AttributeError"}

\* A handler that takes only the transport's exceptions.
CaughtByExceptRequestException(exc) == exc \in {"ConnectionError", "Timeout", "HTTPError"}

\* Whether "except Exception" takes the exception.
CaughtByExceptException(exc) == exc \in ExceptionSubclasses

\* ScrapeResult(rankings, source_used, errors)
ScrapeResult(rankings, source_used, errs) ==
    [rankings |-> rankings, source_used |-> source_used, errors |-> errs]

\* The messages fetch_rankings appends; f"...: {exc}" keeps the exception apart.
TsvZeroMsg == <<"TSV fetch returned zero results">>
TsvFailedMsg(exc) == <<"TSV fetch failed: ", exc>>
HtmlZeroMsg == <<"HTML fallback returned zero results">>
HtmlFailedMsg(exc) == <<"HTML fallback failed: ", exc>>

\* The outcome of the structured-export attempt on the inputs of this run.
TsvOutcome == FetchLatestWeek(http_tsv, tsv_rows)

\* The success branch labelled with the other source.
TsvSucceedsMislabelled ==
    /\ pc = "tsv_attempt"
    /\ ~TsvOutcome.raised /\ TsvOutcome.value # <<>>
    /\ calls' = Append(calls, "fetch_latest_week")
    /\ result' = ScrapeResult(TsvOutcome.value, "html_fallback", errors)
    /\ pc' = "returned"
    /\ UNCHANGED <<tsv_rows, target_week, http_tsv, html_outcome, errors>>
    /\ UNCHANGED moduleVars
    /\ UNCHANGED handlerVars

\* The success branch without its return: control falls through to the fallback.
TsvSucceedsFallsThrough ==
    /\ pc = "tsv_attempt"
    /\ ~TsvOutcome.raised /\ TsvOutcome.value # <<>>
    /\ calls' = Append(calls, "fetch_latest_week")
    /\ pc' = "html_attempt"
    /\ UNCHANGED <<tsv_rows, target_week, http_tsv, html_outcome, errors, result>>
    /\ UNCHANGED moduleVars
    /\ UNCHANGED handlerVars

\* Lines 56-66: fetch_latest_week returned a non-empty tuple; return it.
TsvSucceeds ==
    /\ pc = "tsv_attempt"
    /\ ~TsvOutcome.raised /\ TsvOutcome.value # <<>>
    /\ calls' = Append(calls, "fetch_latest_week")
    /\ result' = ScrapeResult(TsvOutcome.value, "tsv", errors)
    /\ pc' = "returned"
    /\ UNCHANGED <<tsv_rows, target_week, http_tsv, html_outcome, errors>>
    /\ UNCHANGED moduleVars
    /\ UNCHANGED handlerVars

\* Lines 56-67: fetch_latest_week returned an empty tuple.
TsvReturnsEmpty ==
    /\ pc = "tsv_attempt"
    /\ ~TsvOutcome.raised /\ TsvOutcome.value = <<>>
    /\ calls' = Append(calls, "fetch_latest_week")
    /\ errors' = Append(errors, TsvZeroMsg)
    /\ pc' = "html_attempt"
    /\ UNCHANGED <<tsv_rows, target_week, http_tsv, html_outcome, result>>
    /\ UNCHANGED moduleVars
    /\ UNCHANGED handlerVars

\* The handler swallowing the exception without recording it.
TsvRaisesUnrecorded ==
    /\ pc = "tsv_attempt"
    /\ TsvOutcome.raised
    /\ calls' = Append(calls, "fetch_latest_week")
    /\ IF CaughtByExceptException(TsvOutcome.exc)
       THEN /\ errors' = errors
            /\ pc' = "html_attempt"
       ELSE /\ errors' = errors
            /\ pc' = "raised"
    /\ UNCHANGED <<tsv_rows, target_week, http_tsv, html_outcome, result>>
    /\ UNCHANGED moduleVars
    /\ UNCHANGED handlerVars

\* Lines 56, 68-71: fetch_latest_week raised.
TsvRaises ==
    /\ pc = "tsv_attempt"
    /\ TsvOutcome.raised
    /\ calls' = Append(calls, "fetch_latest_week")
    /\ IF CaughtByExceptException(TsvOutcome.exc)
       THEN /\ errors' = Append(errors, TsvFailedMsg(TsvOutcome.exc))
            /\ pc' = "html_attempt"
       ELSE /\ errors' = errors
            /\ pc' = "raised"
    /\ UNCHANGED <<tsv_rows, target_week, http_tsv, html_outcome, result>>
    /\ UNCHANGED moduleVars
    /\ UNCHANGED handlerVars

\* The fallback's success branch relying on ScrapeResult's default errors=().
HtmlSucceedsDropsErrors ==
    /\ pc = "html_attempt"
    /\ ~html_outcome.raised /\ html_outcome.value # <<>>
    /\ calls' = Append(calls, "fetch_all_countries")
    /\ result' = ScrapeResult(html_outcome.value, "html_fallback", <<>>)
    /\ pc' = "returned"
    /\ UNCHANGED <<tsv_rows, target_week, http_tsv, html_outcome, errors>>
    /\ UNCHANGED moduleVars
    /\ UNCHANGED handlerVars

\* Lines 75-85: fetch_all_countries returned a non-empty tuple; return it.
HtmlSucceeds ==
    /\ pc = "html_attempt"
    /\ ~html_outcome.raised /\ html_outcome.value # <<>>
    /\ calls' = Append(calls, "fetch_all_countries")
    /\ result' = ScrapeResult(html_outcome.value, "html_fallback", errors)
    /\ pc' = "returned"
    /\ UNCHANGED <<tsv_rows, target_week, http_tsv, html_outcome, errors>>
    /\ UNCHANGED moduleVars
    /\ UNCHANGED handlerVars

\* The empty-fallback branch without its message.
HtmlReturnsEmptyUnrecorded ==
    /\ pc = "html_attempt"
    /\ ~html_outcome.raised /\ html_outcome.value = <<>>
    /\ calls' = Append(calls, "fetch_all_countries")
    /\ pc' = "exhausted"
    /\ UNCHANGED <<tsv_rows, target_week, http_tsv, html_outcome, errors, result>>
    /\ UNCHANGED moduleVars
    /\ UNCHANGED handlerVars

\* Lines 75-86: fetch_all_countries returned an empty tuple.
HtmlReturnsEmpty ==
    /\ pc = "html_attempt"
    /\ ~html_outcome.raised /\ html_outcome.value = <<>>
    /\ calls' = Append(calls, "fetch_all_countries")
    /\ errors' = Append(errors, HtmlZeroMsg)
    /\ pc' = "exhausted"
    /\ UNCHANGED <<tsv_rows, target_week, http_tsv, html_outcome, result>>
    /\ UNCHANGED moduleVars
    /\ UNCHANGED handlerVars

\* Lines 75, 87-90: fetch_all_countries raised.
HtmlRaises ==
    /\ pc = "html_attempt"
    /\ html_outcome.raised
    /\ calls' = Append(calls, "fetch_all_countries")
    /\ IF CaughtByExceptException(html_outcome.exc)
       THEN /\ errors' = Append(errors, HtmlFailedMsg(html_outcome.exc))
            /\ pc' = "exhausted"
       ELSE /\ errors' = errors
            /\ pc' = "raised"
    /\ UNCHANGED <<tsv_rows, target_week, http_tsv, html_outcome, result>>
    /\ UNCHANGED moduleVars
    /\ UNCHANGED handlerVars

\* The final return with the messages in reverse order.
ExhaustedReversesErrors ==
    /\ pc = "exhausted"
    /\ result' = ScrapeResult(<<>>, "none",
                              [i \in 1..Len(errors) |-> errors[Len(errors) + 1 - i]])
    /\ pc' = "returned"
    /\ UNCHANGED <<tsv_rows, target_week, http_tsv, html_outcome, errors, calls>>
    /\ UNCHANGED moduleVars
    /\ UNCHANGED handlerVars

\* Lines 92-97: both sources exhausted.
Exhausted ==
    /\ pc = "exhausted"
    /\ result' = ScrapeResult(<<>>, "none", errors)
    /\ pc' = "returned"
    /\ UNCHANGED <<tsv_rows, target_week, http_tsv, html_outcome, errors, calls>>
    /\ UNCHANGED moduleVars
    /\ UNCHANGED handlerVars

----------------------------------------------------------------------------
(* Inputs of the orchestrator specification *)

\* Most rows of the export text in a run of fetch_rankings.
MaxOrchRows == 2

\* A line that holds a country name only.
ShortRow == Row(Japan, None, None, None, None, None)

\* The rows an export text of a run is made of: a tracked and an untracked
\* country, on either week, and a line without the week column.
OrchRowDomain ==
    {Row(c, w, Films, <<"1">>, <<"A">>, <<"1">>) : c \in {Japan, Peru}, w \in ParseWeeks}
    \cup {ShortRow}

\* A CountryRanking as the page scrape builds it (source "html_fallback").
HtmlRanking(week, country_name, category) ==
    [week |-> week,
     country |-> TRACKED_COUNTRIES[country_name],
     country_name |-> country_name,
     category |-> category,
     source |-> "html_fallback",
     rankings |-> <<[rank |-> 1, title |-> <<"A">>, weeks_in_top_10 |-> 1,
                     hours_viewed |-> 0]>>]

\* What the call of fetch_all_countries can do: raise, or return a tuple.
HtmlOutcomes ==
    {Raised("ConnectionError"), Raised("AttributeError"),
     Returned(<<>>),
     Returned(<<HtmlRanking(W_2026_02_01, Japan, films)>>),
     Returned(<<HtmlRanking(W_2026_02_01, HongKong, films),
                HtmlRanking(W_2026_02_01, HongKong, <<"t","v">>)>>)}

Init ==
    /\ pc = "tsv_attempt"
    /\ http_tsv \in HttpTsvOutcomes
    /\ tsv_rows \in IF http_tsv = "ok" THEN SeqsUpTo(OrchRowDomain, MaxOrchRows)
                                       ELSE {<<>>}
    /\ target_week = None
    /\ html_outcome \in HtmlOutcomes
    /\ ModuleIdle
    /\ errors = <<>>
    /\ calls = <<>>
    /\ result = None
    /\ HandlerIdle

Next ==
    \/ TsvSucceeds
    \/ TsvReturnsEmpty
    \/ TsvRaises
    \/ HtmlSucceeds
    \/ HtmlReturnsEmpty
    \/ HtmlRaises
    \/ Exhausted

Spec == Init /\ [][Next]_vars

----------------------------------------------------------------------------
(* The page sweep of fetch_all_countries, from the specification's          *)
(* section 4.2: one request per (country, category) page, in order; a page  *)
(* whose request fails is passed over and the sweep goes on.                *)

\* Most pages the sweep requests.
MaxPages == 3

\* The (country, category) pages of the sweep, in request order.
SweepPageList ==
    <<<<Japan, films>>, <<Japan, <<"t","v">>>>, <<HongKong, films>>,
      <<HongKong, <<"t","v">>>>, <<UnitedStates, films>>>>

\* What one page request can do: a transport error, a non-success status,
\* or a rendered page the rows are extracted from.
PageOutcomes == {"ConnectionError", "HTTPError", "ok"}

\* The sweeps of the first MaxPages pages, one outcome per page.
Sweeps ==
    {[i \in 1..MaxPages |-> [country_name |-> SweepPageList[i][1],
                             category |-> SweepPageList[i][2],
                             outcome |-> f[i]]] :
        f \in [1..MaxPages -> PageOutcomes]}

\* The sweep abandoned at the first page whose request fails.
RECURSIVE FetchAllCountriesAbortsOnFailure(_)
FetchAllCountriesAbortsOnFailure(pages) ==
    IF pages = <<>> THEN Returned(<<>>)
    ELSE IF pages[1].outcome # "ok" THEN Raised(pages[1].outcome)
    ELSE LET rest == FetchAllCountriesAbortsOnFailure(Tail(pages))
         IN  IF rest.raised THEN rest
             ELSE Returned(<<HtmlRanking(W_2026_02_01, pages[1].country_name,
                                         pages[1].category)>> \o rest.value)

\* fetch_all_countries(session, config): the rankings of the pages that were
\* fetched, in request order.
RECURSIVE FetchAllCountries(_)
FetchAllCountries(pages) ==
    IF pages = <<>> THEN Returned(<<>>)
    ELSE LET rest == FetchAllCountries(Tail(pages))
         IN  IF pages[1].outcome # "ok" THEN rest
             ELSE Returned(<<HtmlRanking(W_2026_02_01, pages[1].country_name,
                                         pages[1].category)>> \o rest.value)

\* A run of fetch_rankings whose fallback is the sweep of html_pages.
InitSweep ==
    /\ pc = "tsv_attempt"
    /\ http_tsv \in HttpTsvOutcomes
    /\ tsv_rows \in IF http_tsv = "ok" THEN SeqsUpTo(OrchRowDomain, 1) ELSE {<<>>}
    /\ target_week = None
    /\ html_pages \in Sweeps
    /\ html_outcome = FetchAllCountries(html_pages)
    /\ client = None
    /\ open_clients = {}
    /\ errors = <<>>
    /\ calls = <<>>
    /\ result = None
    /\ HandlerIdle

NextSweep ==
    \/ TsvSucceeds
    \/ TsvReturnsEmpty
    \/ TsvRaises
    \/ HtmlSucceeds
    \/ HtmlReturnsEmpty
    \/ Exhausted

SpecSweep == InitSweep /\ [][NextSweep]_vars

----------------------------------------------------------------------------
(* src/config.py: load_config *)

\* s.find(c) counted from 1; 0 when c does not occur.
Find(s, c) ==
    IF \E i \in 1..Len(s) : s[i] = c
    THEN CHOOSE i \in 1..Len(s) : s[i] = c /\ \A j \in 1..(i - 1) : s[j] # c
    ELSE 0

IsAlpha(c) ==
    \/ (Ord[c] >= Ord["A"] /\ Ord[c] <= Ord["Z"])
    \/ (Ord[c] >= Ord["a"] /\ Ord[c] <= Ord["z"])

\* The characters urlsplit accepts in a scheme.
SchemeChar(c) == IsAlpha(c) \/ IsDigit(c) \/ c \in {"+", "-", "."}

\* urlparse(url).scheme: the text before the first colon, lower-cased, when it
\* starts with a letter and holds scheme characters only; the empty str otherwise.
UrlScheme(url) ==
    LET i == Find(url, ":")
    IN  IF i > 1 /\ IsAlpha(url[1]) /\ (\A j \in 1..(i - 1) : SchemeChar(url[j]))
        THEN Lower(SubSeq(url, 1, i - 1))
        ELSE <<>>

MongoDbScheme == <<"m","o","n","g","o","d","b">>
MongoDbSrvScheme == <<"m","o","n","g","o","d","b","+","s","r","v">>

\* MongoConfig(uri=mongo_uri) with the defaults of the dataclass.
MongoConfig(uri) ==
    [uri |-> uri,
     database |-> "netflix_top10",
     rankings_collection |-> "weekly_rankings",
     runs_collection |-> "scrape_runs",
     max_pool_size |-> 1]

\* An exception raised with a message: str(exc) is the value.
RaisedWith(exc, message) == [raised |-> TRUE, exc |-> exc, value |-> message]

UriRequiredMsg == <<"MONGODB_URI environment variable is required">>
InvalidSchemeMsg(scheme) == <<"Invalid MongoDB URI scheme: ", scheme>>

\* load_config without the scheme test: any non-empty URI is taken.
LoadConfigAnyScheme(env) ==
    LET mongo_uri == IF env = None THEN <<>> ELSE env
    IN  IF mongo_uri = <<>> THEN RaisedWith("ValueError", UriRequiredMsg)
        ELSE Returned(MongoConfig(mongo_uri))

\* load_config() with MONGODB_URI = env (None: unset); the MongoConfig half of
\* the pair it returns, or the ValueError it raises.
LoadConfig(env) ==
    LET mongo_uri == IF env = None THEN <<>> ELSE env
    IN  IF mongo_uri = <<>> THEN RaisedWith("ValueError", UriRequiredMsg)
        ELSE IF UrlScheme(mongo_uri) \notin {MongoDbScheme, MongoDbSrvScheme}
        THEN RaisedWith("ValueError", InvalidSchemeMsg(UrlScheme(mongo_uri)))
        ELSE Returned(MongoConfig(mongo_uri))

----------------------------------------------------------------------------
(* src/validation/validators.py *)

MIN_RANK == 1

\* ValidationResult(valid, errors, warnings)
ValidationResult(valid, errs, warnings) ==
    [valid |-> valid, errors |-> errs, warnings |-> warnings]

\* f"{context}: {what}" with context = f"{country}/{category}/week={week}";
\* the parts are kept apart.
RankingMsg(what, ranking) == <<what, ranking.country, ranking.category, ranking.week>>

\* f"{entry_ctx}: {what}" with entry_ctx = f"{context}/rank={entry.rank}"
EntryMsg(what, ranking, entry) ==
    <<what, ranking.country, ranking.category, ranking.week, entry.rank>>

\* The concatenation of a sequence of sequences.
RECURSIVE Flatten(_)
Flatten(seqs) == IF seqs = <<>> THEN <<>> ELSE Head(seqs) \o Flatten(Tail(seqs))

\* The loop body without the seen_ranks test.
EntryErrorsNoDuplicate(ranking, i) ==
    LET entry == ranking.rankings[i]
    IN  (IF entry.rank < MIN_RANK \/ entry.rank > MAX_RANK
         THEN <<EntryMsg("rank out of range [1-10]", ranking, entry)>> ELSE <<>>)
        \o (IF ~Truthy(entry.title) \/ Strip(entry.title) = <<>>
            THEN <<EntryMsg("empty title", ranking, entry)>> ELSE <<>>)

\* The errors the loop body appends for entry i: range, title, duplicate.
EntryErrors(ranking, i) ==
    LET entry == ranking.rankings[i]
        seen_ranks == {ranking.rankings[j].rank : j \in 1..(i - 1)}
    IN  (IF entry.rank < MIN_RANK \/ entry.rank > MAX_RANK
         THEN <<EntryMsg("rank out of range [1-10]", ranking, entry)>> ELSE <<>>)
        \o (IF ~Truthy(entry.title) \/ Strip(entry.title) = <<>>
            THEN <<EntryMsg("empty title", ranking, entry)>> ELSE <<>>)
        \o (IF entry.rank \in seen_ranks
            THEN <<EntryMsg("duplicate rank", ranking, entry)>> ELSE <<>>)

\* The warnings the loop body appends for entry i.
EntryWarnings(ranking, i) ==
    LET entry == ranking.rankings[i]
    IN  IF entry.weeks_in_top_10 < 0
        THEN <<EntryMsg("negative weeks_in_top_10", ranking, entry)>> ELSE <<>>

\* validate_ranking(ranking)
ValidateRanking(ranking) ==
    IF ranking.rankings = <<>>
    THEN ValidationResult(FALSE, <<RankingMsg("no ranking entries", ranking)>>, <<>>)
    ELSE LET n == Len(ranking.rankings)
             errs == Flatten([i \in 1..n |-> EntryErrors(ranking, i)])
             warnings ==
                 (IF ranking.category \notin {films, <<"t", "v">>}
                  THEN <<RankingMsg("unexpected category", ranking)>> ELSE <<>>)
                 \o (IF ranking.week = <<"u","n","k","n","o","w","n">>
                     THEN <<RankingMsg("week is unknown", ranking)>> ELSE <<>>)
                 \o Flatten([i \in 1..n |-> EntryWarnings(ranking, i)])
                 \o (IF n # MAX_RANK
                     THEN <<RankingMsg("expected 10 entries", ranking)>> ELSE <<>>)
         IN  ValidationResult(errs = <<>>, errs, warnings)

\* validate_all(rankings): one result per ranking, in the same order.
ValidateAll(rankings) == [i \in 1..Len(rankings) |-> ValidateRanking(rankings[i])]

----------------------------------------------------------------------------
(* src/models.py: to_document; src/storage/repository.py *)

\* RankingEntry.to_document(): hours_viewed is left out when it is zero.
EntryDocument(entry) ==
    IF entry.hours_viewed > 0
    THEN [rank |-> entry.rank, title |-> entry.title,
          weeks_in_top_10 |-> entry.weeks_in_top_10, hours_viewed |-> entry.hours_viewed]
    ELSE [rank |-> entry.rank, title |-> entry.title,
          weeks_in_top_10 |-> entry.weeks_in_top_10]

\* CountryRanking.to_document()
ToDocument(ranking) ==
    [week |-> ranking.week,
     country |-> ranking.country,
     country_name |-> ranking.country_name,
     category |-> ranking.category,
     fetched_at |-> ranking.fetched_at,
     source |-> ranking.source,
     rankings |-> [i \in 1..Len(ranking.rankings) |-> EntryDocument(ranking.rankings[i])]]

\* The documents the filter {"week", "country", "category"} of the ranking matches.
FilterHits(coll, ranking) ==
    {i \in 1..Len(coll) : /\ coll[i].week = ranking.week
                          /\ coll[i].country = ranking.country
                          /\ coll[i].category = ranking.category}

\* The state of one bulk write: the collection and the counters of its result.
BulkState(coll) == [coll |-> coll, upserted_count |-> 0, modified_count |-> 0]

\* An insert whatever the collection holds, in place of the upsert.
InsertAlways(st, ranking) ==
    [st EXCEPT !.coll = Append(st.coll, ToDocument(ranking)),
               !.upserted_count = st.upserted_count + 1]

\* UpdateOne(filter, {"$set": ranking.to_document()}, upsert=True): the first
\* matching document takes the fields (counted as modified when one changes);
\* with no match the document is inserted.
UpdateOneUpsert(st, ranking) ==
    LET hits == FilterHits(st.coll, ranking)
        doc == ToDocument(ranking)
    IN  IF hits = {}
        THEN [st EXCEPT !.coll = Append(st.coll, doc),
                        !.upserted_count = st.upserted_count + 1]
        ELSE LET i == CHOOSE h \in hits : \A g \in hits : h <= g
             IN  IF st.coll[i] = doc THEN st
                 ELSE [st EXCEPT !.coll[i] = doc,
                                 !.modified_count = st.modified_count + 1]

\* The operations applied one after the other, in the order given.
RECURSIVE ApplyOperations(_, _)
ApplyOperations(st, rankings) ==
    IF rankings = <<>> THEN st
    ELSE ApplyOperations(UpdateOneUpsert(st, Head(rankings)), Tail(rankings))

\* The orders in which an unordered bulk write can apply n operations.
ExecutionOrders(n) ==
    {p \in [1..n -> 1..n] : \A i \in 1..n : \A j \in 1..n : p[i] = p[j] => i = j}

\* bulk_write(operations, ordered=False) applying the operations in order p.
BulkWrite(coll, rankings, p) ==
    ApplyOperations(BulkState(coll), [i \in 1..Len(rankings) |-> rankings[p[i]]])

\* The index ensure_indexes creates.
UniqueIndexName == "week_country_category_unique"

----------------------------------------------------------------------------
(* src/handler.py: lambda_handler and _finish_run *)

\* The response of the configuration-error exit.
ErrorResponse(message) == [statusCode |-> 500, body |-> [error |-> message]]

\* A response with the success code whatever the status.
RunResponseAlwaysOk(status, source_used, saved, errs) ==
    [statusCode |-> 200,
     body |-> [run_id |-> "run_id", status |-> status, source_used |-> source_used,
               saved |-> saved, errors |-> errs]]

\* The response _finish_run returns.
RunResponse(status, source_used, saved, errs) ==
    [statusCode |-> IF status # "failure" THEN 200 ELSE 500,
     body |-> [run_id |-> "run_id", status |-> status, source_used |-> source_used,
               saved |-> saved, errors |-> errs]]

\* ScrapeRun(...).to_document(), without its two timestamps.
ScrapeRunDocument(status, source_used, saved, errs) ==
    [run_id |-> "run_id", status |-> status, source_used |-> source_used,
     total_documents_saved |-> saved, errors |-> errs]

StorageFailedMsg == <<"Storage failed: ", "PyMongoError">>

\* _finish_run without its except clause: a PyMongoError of the audit write
\* turns the invocation into an error response.
FinishRunAuditRaises(callsSoFar, status, source_used, saved, errs) ==
    /\ IF mongo_fault = "get_database"
       THEN /\ calls' = callsSoFar \o <<"get_database">>
            /\ runs_coll' = runs_coll
       ELSE /\ calls' = callsSoFar \o <<"get_database", "save_scrape_run">>
            /\ runs_coll' = IF audit_fault THEN runs_coll
                            ELSE Append(runs_coll,
                                        ScrapeRunDocument(status, source_used, saved, errs))
    /\ errors' = errs
    /\ result' = IF audit_fault /\ mongo_fault # "get_database"
                 THEN ErrorResponse(<<"PyMongoError">>)
                 ELSE RunResponse(status, source_used, saved, errs)
    /\ pc' = "h_returned"

\* _finish_run(run_id, started_at, status, source_used, saved, errors,
\* mongo_config), called after the calls in callsSoFar: get_database, then
\* save_scrape_run unless building the client raised; a PyMongoError of either
\* is logged and dropped; the response is returned.
FinishRun(callsSoFar, status, source_used, saved, errs) ==
    /\ IF mongo_fault = "get_database"
       THEN /\ calls' = callsSoFar \o <<"get_database">>
            /\ runs_coll' = runs_coll
       ELSE /\ calls' = callsSoFar \o <<"get_database", "save_scrape_run">>
            /\ runs_coll' = IF audit_fault THEN runs_coll
                            ELSE Append(runs_coll,
                                        ScrapeRunDocument(status, source_used, saved, errs))
    /\ errors' = errs
    /\ result' = RunResponse(status, source_used, saved, errs)
    /\ pc' = "h_returned"

\* Lines 77-84: load_config raises ValueError; the response is returned at once.
ConfigError ==
    /\ pc = "h_start"
    /\ LoadConfig(env_uri).raised
    /\ calls' = <<"load_config">>
    /\ result' = ErrorResponse(LoadConfig(env_uri).value)
    /\ pc' = "h_returned"
    /\ UNCHANGED <<tsv_rows, target_week, http_tsv, html_outcome, errors>>
    /\ UNCHANGED moduleVars
    /\ UNCHANGED handlerVars

\* Lines 86-103: fetch_rankings returns no rankings. (fetch_rankings catches
\* every Exception itself, so the except clause of lines 90-96 takes nothing.)
FetchEmpty ==
    /\ pc = "h_start"
    /\ ~LoadConfig(env_uri).raised
    /\ fetched.rankings = <<>>
    /\ FinishRun(<<"load_config", "create_session", "fetch_rankings">>,
                 "failure", fetched.source_used, 0, fetched.errors)
    /\ UNCHANGED <<tsv_rows, target_week, http_tsv, html_outcome>>
    /\ UNCHANGED moduleVars
    /\ UNCHANGED <<env_uri, fetched, mongo_fault, audit_fault, rankings_coll, indexes, save_args>>

\* The errors of all validation results, in order (lines 105-112).
ValidationErrors(rankings) ==
    Flatten([i \in 1..Len(rankings) |-> ValidateAll(rankings)[i].errors])

\* The calls of a run up to and including the storage call that raises.
CallsUpTo(fault) ==
    <<"load_config", "create_session", "fetch_rankings", "validate_all", "get_database">>
    \o (IF fault \in {"ensure_indexes", "bulk_write"} THEN <<"ensure_indexes">> ELSE <<>>)
    \o (IF fault = "bulk_write" THEN <<"save_rankings">> ELSE <<>>)

\* Lines 105-128: the rankings are validated, then get_database,
\* ensure_indexes or the bulk write of save_rankings raises PyMongoError. An
\* unordered bulk write that raises may have applied some of its operations.
StorageFails ==
    /\ pc = "h_start"
    /\ ~LoadConfig(env_uri).raised
    /\ fetched.rankings # <<>>
    /\ mongo_fault # "none"
    /\ indexes' = IF mongo_fault = "bulk_write" THEN indexes \cup {UniqueIndexName}
                  ELSE indexes
    /\ save_args' = IF mongo_fault = "bulk_write" THEN Append(save_args, fetched.rankings)
                    ELSE save_args
    /\ IF mongo_fault = "bulk_write"
       THEN \E p \in ExecutionOrders(Len(fetched.rankings)) :
            \E k \in 0..Len(fetched.rankings) :
                rankings_coll' =
                    ApplyOperations(BulkState(rankings_coll),
                                    [i \in 1..k |-> fetched.rankings[p[i]]]).coll
       ELSE rankings_coll' = rankings_coll
    /\ FinishRun(CallsUpTo(mongo_fault), "failure", fetched.source_used, 0,
                 ValidationErrors(fetched.rankings) \o <<StorageFailedMsg>>)
    /\ UNCHANGED <<tsv_rows, target_week, http_tsv, html_outcome>>
    /\ UNCHANGED moduleVars
    /\ UNCHANGED <<env_uri, fetched, mongo_fault, audit_fault>>

\* A handler that stores nothing as soon as one ranking has a validation error.
StorageSucceedsAllOrNothing ==
    /\ pc = "h_start"
    /\ ~LoadConfig(env_uri).raised
    /\ fetched.rankings # <<>>
    /\ mongo_fault = "none"
    /\ LET errs == ValidationErrors(fetched.rankings)
       IN  IF errs # <<>>
           THEN /\ UNCHANGED <<rankings_coll, indexes, save_args>>
                /\ FinishRun(<<"load_config", "create_session", "fetch_rankings",
                               "validate_all">>,
                             "partial_failure", fetched.source_used, 0, <<>>)
           ELSE \E p \in ExecutionOrders(Len(fetched.rankings)) :
                LET st == BulkWrite(rankings_coll, fetched.rankings, p)
                IN  /\ indexes' = indexes \cup {UniqueIndexName}
                    /\ save_args' = Append(save_args, fetched.rankings)
                    /\ rankings_coll' = st.coll
                    /\ FinishRun(CallsUpTo("bulk_write"), "success", fetched.source_used,
                                 st.upserted_count + st.modified_count, errs)
    /\ UNCHANGED <<tsv_rows, target_week, http_tsv, html_outcome>>
    /\ UNCHANGED moduleVars
    /\ UNCHANGED <<env_uri, fetched, mongo_fault, audit_fault>>

\* A handler that takes over the messages of fetch_rankings whenever there
\* are any, before the validation errors.
StorageSucceedsCopiesFetchErrors ==
    /\ pc = "h_start"
    /\ ~LoadConfig(env_uri).raised
    /\ fetched.rankings # <<>>
    /\ mongo_fault = "none"
    /\ \E p \in ExecutionOrders(Len(fetched.rankings)) :
          LET st == BulkWrite(rankings_coll, fetched.rankings, p)
              errs == fetched.errors \o ValidationErrors(fetched.rankings)
          IN  /\ indexes' = indexes \cup {UniqueIndexName}
              /\ save_args' = Append(save_args, fetched.rankings)
              /\ rankings_coll' = st.coll
              /\ FinishRun(CallsUpTo("bulk_write"),
                           IF errs # <<>> THEN "partial_failure" ELSE "success",
                           fetched.source_used,
                           st.upserted_count + st.modified_count, errs)
    /\ UNCHANGED <<tsv_rows, target_week, http_tsv, html_outcome>>
    /\ UNCHANGED moduleVars
    /\ UNCHANGED <<env_uri, fetched, mongo_fault, audit_fault>>

\* Lines 105-134: the rankings are validated, the validation errors join
\* errors, and all fetched rankings go to save_rankings; the status is
\* "partial_failure" when errors is non-empty and "success" otherwise.
StorageSucceeds ==
    /\ pc = "h_start"
    /\ ~LoadConfig(env_uri).raised
    /\ fetched.rankings # <<>>
    /\ mongo_fault = "none"
    /\ \E p \in ExecutionOrders(Len(fetched.rankings)) :
          LET st == BulkWrite(rankings_coll, fetched.rankings, p)
              errs == ValidationErrors(fetched.rankings)
          IN  /\ indexes' = indexes \cup {UniqueIndexName}
              /\ save_args' = Append(save_args, fetched.rankings)
              /\ rankings_coll' = st.coll
              /\ FinishRun(CallsUpTo("bulk_write"),
                           IF errs # <<>> THEN "partial_failure" ELSE "success",
                           fetched.source_used,
                           st.upserted_count + st.modified_count, errs)
    /\ UNCHANGED <<tsv_rows, target_week, http_tsv, html_outcome>>
    /\ UNCHANGED moduleVars
    /\ UNCHANGED <<env_uri, fetched, mongo_fault, audit_fault>>

----------------------------------------------------------------------------
(* Inputs of the handler specification *)

\* Most rankings in one fetched result.
MaxFetched == 2

\* Values of MONGODB_URI: unset, empty, the two accepted schemes, an
\* upper-case scheme, another scheme, and a text without a colon.
EnvUris ==
    {None, <<>>,
     <<"m","o","n","g","o","d","b",":","/","/","h">>,
     <<"m","o","n","g","o","d","b","+","s","r","v",":","/","/","h">>,
     <<"M","O","N","G","O","D","B",":","/","/","h">>,
     <<"h","t","t","p",":","/","/","h">>,
     <<"m","o","n","g","o","d","b">>}

\* RankingEntry(rank, title, weeks_in_top_10)
Entry(rank, title, weeks) ==
    [rank |-> rank, title |-> title, weeks_in_top_10 |-> weeks, hours_viewed |-> 0]

\* A CountryRanking as a fetcher builds it, with its fetched_at.
FetchedRanking(country_name, category, source, entries, fetched_at) ==
    [week |-> W_2026_02_01,
     country |-> CountrySlug(country_name),
     country_name |-> country_name,
     category |-> category,
     source |-> source,
     rankings |-> entries,
     fetched_at |-> fetched_at]

\* Rankings of one fetch: two that pass validation, one built from a short
\* line (rank 0, no title) and one with a rank given twice.
FetchedRankings(source, fetched_at) ==
    {FetchedRanking(Japan, films, source,
                    <<Entry(1, <<"A">>, 3), Entry(2, <<"B">>, 1)>>, fetched_at),
     FetchedRanking(Japan, <<"t", "v">>, source, <<Entry(1, <<"A">>, 1)>>, fetched_at),
     FetchedRanking(HongKong, films, source,
                    <<Entry(0, None, 0), Entry(1, <<"A">>, 1)>>, fetched_at),
     FetchedRanking(HongKong, <<"t", "v">>, source,
                    <<Entry(1, <<"A">>, 1), Entry(1, <<"B">>, 2)>>, fetched_at)}

\* What fetch_rankings can return: nothing from either source, or rankings of
\* the export, or rankings of the fallback after an empty export.
FetchResults ==
    {ScrapeResult(<<>>, "none", <<TsvZeroMsg, HtmlZeroMsg>>)}
    \cup {ScrapeResult(r, "tsv", <<>>) :
            r \in SeqsUpTo(FetchedRankings("tsv", 1), MaxFetched) \ {<<>>}}
    \cup {ScrapeResult(r, "html_fallback", <<TsvZeroMsg>>) :
            r \in SeqsUpTo(FetchedRankings("html_fallback", 1), MaxFetched) \ {<<>>}}

\* The store before the run: new, or left by an earlier run of the same week.
EarlierStores ==
    {[coll |-> <<>>, indexes |-> {}],
     [coll |-> <<ToDocument(FetchedRanking(Japan, films, "tsv",
                                           <<Entry(1, <<"A">>, 2)>>, 0))>>,
      indexes |-> {UniqueIndexName}]}

InitHandler ==
    /\ pc = "h_start"
    /\ tsv_rows = <<>>
    /\ target_week = None
    /\ http_tsv = "ok"
    /\ html_outcome = None
    /\ ModuleIdle
    /\ errors = <<>>
    /\ calls = <<>>
    /\ result = None
    /\ env_uri \in EnvUris
    /\ fetched \in FetchResults
    /\ mongo_fault \in {"none", "get_database", "ensure_indexes", "bulk_write"}
    /\ audit_fault \in BOOLEAN
    /\ \E store \in EarlierStores :
          /\ rankings_coll = store.coll
          /\ indexes = store.indexes
    /\ runs_coll = <<>>
    /\ save_args = <<>>

NextHandler ==
    \/ ConfigError
    \/ FetchEmpty
    \/ StorageFails
    \/ StorageSucceeds

SpecHandler == InitHandler /\ [][NextHandler]_vars

----------------------------------------------------------------------------
(* Inputs of the validation specification: validate_all on one ranking whose
   entries, category and week carry every combination of the defects *)

\* Most entries of a ranking, the rankings of MAX_RANK entries apart.
MaxEntries == 2

unknown == <<"u","n","k","n","o","w","n">>

\* Entries with a rank below, inside and above the range, with a title, an
\* empty title and a blank one, with positive and negative weeks.
ValidationEntries ==
    {Entry(rank, title, weeks) :
        rank \in {0, 1, MAX_RANK + 1}, title \in {<<"A">>, <<>>, <<" ">>}, weeks \in {1, 0 - 1}}

\* The ranks 1..MAX_RANK once each, and the same with rank 1 in the last place.
TenEntries == [i \in 1..MAX_RANK |-> Entry(i, <<"A">>, 1)]
TenEntriesRepeated == [TenEntries EXCEPT ![MAX_RANK] = Entry(1, <<"B">>, 1)]

ValidationRankings ==
    {[FetchedRanking(Japan, category, "tsv", entries, 1) EXCEPT !.week = week] :
        category \in {films, <<"t", "v">>, <<"k","i","d","s">>},
        week \in {W_2026_02_01, unknown},
        entries \in SeqsUpTo(ValidationEntries, MaxEntries)
                    \cup {TenEntries, TenEntriesRepeated}}

InitValidate ==
    /\ pc = "validate"
    /\ tsv_rows = <<>>
    /\ target_week = None
    /\ http_tsv = "ok"
    /\ html_outcome = None
    /\ ModuleIdle
    /\ errors = <<>>
    /\ calls = <<>>
    /\ result = None
    /\ env_uri = None
    /\ \E ranking \in ValidationRankings : fetched = ScrapeResult(<<ranking>>, "tsv", <<>>)
    /\ mongo_fault = "none"
    /\ audit_fault = FALSE
    /\ rankings_coll = <<>>
    /\ runs_coll = <<>>
    /\ indexes = {}
    /\ save_args = <<>>

\* A call of validate_all(result.rankings).
ValidateAllCall ==
    /\ pc = "validate"
    /\ result' = ValidateAll(fetched.rankings)
    /\ pc' = "validated"
    /\ UNCHANGED <<tsv_rows, target_week, http_tsv, html_outcome, errors, calls>>
    /\ UNCHANGED moduleVars
    /\ UNCHANGED handlerVars

NextValidate == ValidateAllCall

SpecValidate == InitValidate /\ [][NextValidate]_vars

----------------------------------------------------------------------------
(* Inputs of the repository specification: save_rankings called again and
   again on one collection, as by successive runs of the scraper *)

\* Most save_rankings calls in one behaviour.
MaxSaves == 2

\* Most rankings in one batch.
MaxBatch == 2

\* The films ranking of one week, from two fetches.
RepoRankings ==
    {FetchedRanking(Japan, films, "tsv", <<Entry(1, <<"A">>, 3)>>, 1),
     FetchedRanking(Japan, films, "tsv", <<Entry(1, <<"B">>, 1)>>, 2)}

\* The collection before the first call: new, or holding the tv ranking.
RepoStores ==
    {<<>>,
     <<ToDocument(FetchedRanking(Japan, <<"t", "v">>, "tsv", <<Entry(1, <<"A">>, 1)>>, 0))>>}

InitRepo ==
    /\ pc = "repo"
    /\ tsv_rows = <<>>
    /\ target_week = None
    /\ http_tsv = "ok"
    /\ html_outcome = None
    /\ ModuleIdle
    /\ errors = <<>>
    /\ calls = <<>>
    /\ result = None
    /\ env_uri = None
    /\ fetched = None
    /\ mongo_fault = "none"
    /\ audit_fault = FALSE
    /\ rankings_coll \in RepoStores
    /\ runs_coll = <<>>
    /\ indexes = {}
    /\ save_args = <<>>

\* RankingsRepository.ensure_indexes(): create_indexes is a no-op on an index
\* that exists.
EnsureIndexes ==
    /\ pc = "repo"
    /\ indexes' = indexes \cup {UniqueIndexName}
    /\ UNCHANGED <<pc, tsv_rows, target_week, http_tsv, html_outcome, errors, calls, result>>
    /\ UNCHANGED moduleVars
    /\ UNCHANGED <<env_uri, fetched, mongo_fault, audit_fault, rankings_coll, runs_coll, save_args>>

\* RankingsRepository.save_rankings(rankings): 0 at once for an empty tuple,
\* else one unordered bulk write of upserts and the sum of its two counters.
SaveRankings ==
    /\ pc = "repo"
    /\ Len(save_args) < MaxSaves
    /\ \E rankings \in SeqsUpTo(RepoRankings, MaxBatch) :
          /\ save_args' = Append(save_args, rankings)
          /\ IF rankings = <<>>
             THEN /\ result' = 0
                  /\ UNCHANGED <<rankings_coll, calls>>
             ELSE \E p \in ExecutionOrders(Len(rankings)) :
                  LET st == BulkWrite(rankings_coll, rankings, p)
                  IN  /\ calls' = Append(calls, "bulk_write")
                      /\ rankings_coll' = st.coll
                      /\ result' = st.upserted_count + st.modified_count
    /\ UNCHANGED <<pc, tsv_rows, target_week, http_tsv, html_outcome, errors>>
    /\ UNCHANGED moduleVars
    /\ UNCHANGED <<env_uri, fetched, mongo_fault, audit_fault, runs_coll, indexes>>

NextRepo ==
    \/ EnsureIndexes
    \/ SaveRankings

SpecRepo == InitRepo /\ [][NextRepo]_vars

----------------------------------------------------------------------------
(* src/storage/mongo_client.py: get_database and close_connection *)

\* Most calls of get_database and close_connection in one container.
MaxClientCalls == 4

\* The URIs of the configurations get_database is called with.
ClientUris ==
    {<<"m","o","n","g","o","d","b",":","/","/","h">>,
     <<"m","o","n","g","o","d","b","+","s","r","v",":","/","/","h">>}

\* MongoConfig.database
DatabaseName == "netflix_top10"

\* The n-th MongoClient object of the container, built from uri.
MongoClient(n, uri) == <<"MongoClient", n, uri>>

\* held[name]: the handle of database name on the client held.
Database(held, name) == <<"Database", held[2], name>>

\* The MongoClient objects built so far.
ClientsMade == Cardinality({i \in 1..Len(calls) : calls[i][1] = "MongoClient"})

\* The calls of the two functions made so far.
ClientCalls ==
    Cardinality({i \in 1..Len(calls) :
                    calls[i][1] \in {"get_database", "close_connection"}})

\* A get_database that builds a client for every URI it has not seen on the
\* held client, leaving the earlier client open.
GetDatabasePerUri(uri) ==
    /\ pc = "container"
    /\ ClientCalls < MaxClientCalls
    /\ IF client = None \/ client[3] # uri
       THEN LET made == MongoClient(ClientsMade + 1, uri)
            IN  /\ calls' = calls \o <<<<"get_database", uri>>, <<"MongoClient", uri>>>>
                /\ client' = made
                /\ open_clients' = open_clients \cup {made}
                /\ result' = Returned(Database(made, DatabaseName))
       ELSE /\ calls' = Append(calls, <<"get_database", uri>>)
            /\ result' = Returned(Database(client, DatabaseName))
            /\ UNCHANGED <<client, open_clients>>
    /\ UNCHANGED <<pc, tsv_rows, target_week, http_tsv, html_outcome, errors, html_pages>>
    /\ UNCHANGED handlerVars

\* get_database(config), lines 40-48: with no client held, MongoClient is
\* built from config.uri (the constructor returns the client or raises, and
\* then none is held); with a client held it is used as it is; the handle of
\* config.database on the held client is returned.
GetDatabase(uri) ==
    /\ pc = "container"
    /\ ClientCalls < MaxClientCalls
    /\ IF client = None
       THEN \/ LET made == MongoClient(ClientsMade + 1, uri)
               IN  /\ calls' = calls \o <<<<"get_database", uri>>, <<"MongoClient", uri>>>>
                   /\ client' = made
                   /\ open_clients' = open_clients \cup {made}
                   /\ result' = Returned(Database(made, DatabaseName))
            \/ /\ calls' = Append(calls, <<"get_database", uri>>)
               /\ result' = Raised("PyMongoError")
               /\ UNCHANGED <<client, open_clients>>
       ELSE /\ calls' = Append(calls, <<"get_database", uri>>)
            /\ result' = Returned(Database(client, DatabaseName))
            /\ UNCHANGED <<client, open_clients>>
    /\ UNCHANGED <<pc, tsv_rows, target_week, http_tsv, html_outcome, errors, html_pages>>
    /\ UNCHANGED handlerVars

\* close_connection(), lines 57-61: the held client is closed and dropped;
\* with none held nothing is done.
CloseConnection ==
    /\ pc = "container"
    /\ ClientCalls < MaxClientCalls
    /\ calls' = Append(calls, <<"close_connection">>)
    /\ IF client # None
       THEN /\ open_clients' = open_clients \ {client}
            /\ client' = None
       ELSE UNCHANGED <<client, open_clients>>
    /\ result' = Returned(None)
    /\ UNCHANGED <<pc, tsv_rows, target_week, http_tsv, html_outcome, errors, html_pages>>
    /\ UNCHANGED handlerVars

\* The module as imported: no client is held.
InitClient ==
    /\ pc = "container"
    /\ tsv_rows = <<>>
    /\ target_week = None
    /\ http_tsv = "ok"
    /\ html_outcome = None
    /\ ModuleIdle
    /\ errors = <<>>
    /\ calls = <<>>
    /\ result = None
    /\ HandlerIdle

NextClient ==
    \/ \E uri \in ClientUris : GetDatabase(uri)
    \/ CloseConnection

SpecClient == InitClient /\ [][NextClient]_vars

----------------------------------------------------------------------------
(* Properties of fetch_rankings, checked under Spec *)

TsvFailedOrEmpty == TsvOutcome.raised \/ TsvOutcome.value = <<>>
HtmlFailedOrEmpty == html_outcome.raised \/ html_outcome.value = <<>>

\* The message fetch_rankings records for a failed or empty attempt.
TsvMessage == IF TsvOutcome.raised THEN TsvFailedMsg(TsvOutcome.exc) ELSE TsvZeroMsg
HtmlMessage == IF html_outcome.raised THEN HtmlFailedMsg(html_outcome.exc) ELSE HtmlZeroMsg

\* C1: fetch_rankings never raises: whatever the two attempts do (raise any
\* Exception, return nothing, return results), no exception crosses its
\* boundary, the call ends after at most the two attempts, and what it returns
\* is a ScrapeResult.
C1_NeverRaises ==
    /\ pc \in {"tsv_attempt", "html_attempt", "exhausted", "returned"}
    /\ Len(calls) <= 2
    /\ pc = "returned" =>
          /\ DOMAIN result = {"rankings", "source_used", "errors"}
          /\ result.source_used \in {"tsv", "html_fallback", "none"}

C1_Witness ==
    /\ pc = "returned"
    /\ TsvOutcome.raised /\ TsvOutcome.exc = "TypeError"
    /\ html_outcome.raised /\ html_outcome.exc = "AttributeError"

\* C2: if the structured-export attempt raises, the page scrape is attempted,
\* the returned source_used is not "tsv" and the returned errors contain the
\* message of the structured-export failure, whatever the page scrape does.
C2_TsvRaiseFallsBack ==
    (pc = "returned" /\ TsvOutcome.raised) =>
        /\ "fetch_all_countries" \in Range(calls)
        /\ result.source_used # "tsv"
        /\ TsvFailedMsg(TsvOutcome.exc) \in Range(result.errors)

C2_Witness ==
    /\ pc = "returned" /\ TsvOutcome.raised
    /\ result.source_used = "html_fallback"

\* C3: if both attempts fail or return empty, the call returns source_used
\* "none", no rankings, and the structured-export message followed by the
\* page-scrape message.
C3_BothFail ==
    (pc = "returned" /\ TsvFailedOrEmpty /\ HtmlFailedOrEmpty) =>
        result = ScrapeResult(<<>>, "none", <<TsvMessage, HtmlMessage>>)

C3_Witness ==
    /\ pc = "returned"
    /\ ~TsvOutcome.raised /\ TsvOutcome.value = <<>>
    /\ html_outcome.raised

\* C4: when the structured export returns at least one result, the call
\* returns source_used "tsv", exactly that result set and no error message.
C4_TsvSuccess ==
    (pc = "returned" /\ ~TsvOutcome.raised /\ TsvOutcome.value # <<>>) =>
        result = ScrapeResult(ParseCountriesTsv(tsv_rows, None).value, "tsv", <<>>)

\* The export holds a row of an older week too, which the result leaves out.
C4_Witness ==
    /\ pc = "returned"
    /\ result.source_used = "tsv" /\ Len(result.rankings) = 1
    /\ \E i \in 1..Len(tsv_rows) : tsv_rows[i].week # result.rankings[1].week

\* C5: when the structured export raises or returns nothing and the page
\* scrape returns at least one result, the call returns source_used
\* "html_fallback", exactly the page-scrape result set, and the message
\* recorded for the structured-export step.
C5_HtmlSuccess ==
    (pc = "returned" /\ TsvFailedOrEmpty /\ ~HtmlFailedOrEmpty) =>
        /\ result.source_used = "html_fallback"
        /\ result.rankings = html_outcome.value
        /\ TsvMessage \in Range(result.errors)

C5_Witness ==
    /\ pc = "returned"
    /\ ~TsvOutcome.raised /\ TsvOutcome.value = <<>> /\ tsv_rows # <<>>
    /\ Len(html_outcome.value) = 2
    /\ result.source_used = "html_fallback"

\* C6: the structured export is attempted first and exactly once; the page
\* scrape at most once, only after the structured-export attempt ended by
\* raising or returning nothing; neither attempt is repeated.
C6_FixedPreference ==
    /\ calls \in {<<>>, <<"fetch_latest_week">>,
                  <<"fetch_latest_week", "fetch_all_countries">>}
    /\ (pc = "tsv_attempt") <=> (calls = <<>>)
    /\ pc = "html_attempt" => calls = <<"fetch_latest_week">>
    /\ "fetch_all_countries" \in Range(calls) => TsvFailedOrEmpty
    /\ (pc = "returned" /\ ~TsvFailedOrEmpty) => calls = <<"fetch_latest_week">>
    /\ (pc = "returned" /\ TsvFailedOrEmpty) =>
          calls = <<"fetch_latest_week", "fetch_all_countries">>

C6_Witness ==
    /\ pc = "returned"
    /\ calls = <<"fetch_latest_week", "fetch_all_countries">>
    /\ result.source_used = "html_fallback"

----------------------------------------------------------------------------
(* Properties of _parse_countries_tsv, checked under SpecParse *)

\* The greatest week string over all rows of a non-empty export.
MaxWeek(rows) ==
    CHOOSE w \in {rows[i].week : i \in 1..Len(rows)} :
        \A i \in 1..Len(rows) : ~StrLess(w, rows[i].week)

\* The indices of the rows of tracked countries on week w.
TrackedOn(rows, w) ==
    {i \in 1..Len(rows) : rows[i].country_name \in tracked_names /\ rows[i].week = w}

\* C8: with no target week the parser returns exactly the tracked-country
\* groups of the greatest week string over all rows (rows of untracked
\* countries count for the maximum); groups of every other week are dropped.
C8_LatestWeekOnly ==
    (pc = "parsed" /\ target_week = None) =>
        IF tsv_rows = <<>> THEN result = Returned(<<>>)
        ELSE LET mx == MaxWeek(tsv_rows)
                 on == TrackedOn(tsv_rows, mx)
                 groups == {<<tsv_rows[i].country_name, tsv_rows[i].category>> : i \in on}
                 out == result.value
             IN  /\ ~result.raised
                 /\ Len(out) = Cardinality(groups)
                 /\ \A i \in 1..Len(out) : out[i].week = mx
                 /\ \A g \in groups : \E i \in 1..Len(out) :
                        /\ out[i].country_name = g[1]
                        /\ out[i].category = CategorySlug(g[2])
                        /\ Len(out[i].rankings) =
                              Cardinality({j \in on : tsv_rows[j].country_name = g[1]
                                                      /\ tsv_rows[j].category = g[2]})

\* The greatest week comes from an untracked country only: every tracked group
\* is of an older week and is dropped.
C8_Witness ==
    /\ pc = "parsed" /\ target_week = None /\ result = Returned(<<>>)
    /\ \E i \in 1..Len(tsv_rows) : tsv_rows[i].country_name \in tracked_names
    /\ \E i \in 1..Len(tsv_rows) :
          /\ tsv_rows[i].country_name \notin tracked_names
          /\ tsv_rows[i].week = MaxWeek(tsv_rows)

\* C9: if a target week is supplied (any value, the empty string included) and
\* no row is of that week, the parser returns the empty sequence.
C9_TargetWithoutMatch ==
    (/\ pc = "parsed"
     /\ target_week # None
     /\ \A i \in 1..Len(tsv_rows) : tsv_rows[i].week # target_week) =>
        result = Returned(<<>>)

\* Order of two returned CountryRanking values by (week, country_name, category).
RankingKeyLess(a, b) ==
    KeyLess(<<a.week, a.country_name, a.category>>, <<b.week, b.country_name, b.category>>)

\* C10: the returned sequence is sorted by (week, country_name, category) of
\* the returned values and holds no two values with the same key: it is
\* strictly increasing in that key, whatever the category labels of the export.
C10_OnePerKeySorted ==
    pc = "parsed" =>
        \A i \in 1..Len(result.value) : \A j \in 1..Len(result.value) :
            i < j => RankingKeyLess(result.value[i], result.value[j])

----------------------------------------------------------------------------
(* Properties of _parse_countries_tsv on full-week exports, checked under SpecFull *)

\* The tracked countries that have rows on the greatest week of the export.
LatestCountries(rows) ==
    {rows[i].country_name : i \in TrackedOn(rows, MaxWeek(rows))}

\* The export holds, for every tracked country of its greatest week and for
\* each of the two categories, exactly the ranks 1..MAX_RANK, once each, and no
\* row of that week with another category label.
FullWeekInput(rows) ==
    /\ rows # <<>>
    /\ LET on == TrackedOn(rows, MaxWeek(rows))
       IN  /\ \A i \in on : rows[i].category \in Range(FullCategorySeq)
           /\ \A c \in LatestCountries(rows) : \A k \in Range(FullCategorySeq) :
              \A n \in 1..MAX_RANK :
                  Cardinality({i \in on : /\ rows[i].country_name = c
                                          /\ rows[i].category = k
                                          /\ rows[i].weekly_rank = IntToStr(n)}) = 1
           /\ \A i \in on : \E n \in 1..MAX_RANK : rows[i].weekly_rank = IntToStr(n)

\* C7: on an export that holds the rows of N tracked countries x 2 categories
\* on the same latest week, ten rows per country and category, the parser
\* with no target week returns exactly N x 2 CountryRanking values, each with
\* 10 entries in ascending rank.
C7_FullWeek ==
    (pc = "parsed" /\ target_week = None /\ FullWeekInput(tsv_rows)) =>
        /\ ~result.raised
        /\ Len(result.value) = 2 * Cardinality(LatestCountries(tsv_rows))
        /\ \A i \in 1..Len(result.value) :
              /\ Len(result.value[i].rankings) = MAX_RANK
              /\ \A j \in 1..(MAX_RANK - 1) :
                    result.value[i].rankings[j].rank < result.value[i].rankings[j + 1].rank

\* Three countries whose lists come rank position by rank position, highest
\* rank first, after a row of an older week.
C7_Witness ==
    /\ pc = "parsed" /\ target_week = None /\ FullWeekInput(tsv_rows)
    /\ Len(result.value) = 2 * Len(FullCountrySeq)
    /\ tsv_rows[1].week = W_2026_01_25
    /\ tsv_rows[Len(tsv_rows)].weekly_rank = <<"1">>
    /\ tsv_rows[Len(tsv_rows) - 1].weekly_rank = <<"1">>

----------------------------------------------------------------------------
(* Properties of the numeric fields and of the entry order, checked under
   SpecNumeric *)

\* Column texts that are empty, not a number, or absent from the line.
MalformedTexts == {None, <<>>, <<"x">>, <<"1", ".", "5">>}

\* The plain integer texts of the inputs, with the integers they denote.
WellFormedValue ==
    (<<"1">> :> 1) @@ (<<"2">> :> 2) @@ (<<"3">> :> 3) @@ (<<"1", "0">> :> 10)
    @@ (<<"-", "3">> :> (0 - 3))

\* Whether the integer n is what the claim requires for the column text.
FieldAgrees(text, n) ==
    /\ text \in MalformedTexts => n = 0
    /\ text \in DOMAIN WellFormedValue => n = WellFormedValue[text]

\* Whether the entry carries the numeric fields required for the row.
EntryAgrees(row, entry) ==
    /\ FieldAgrees(row.weekly_rank, entry.rank)
    /\ FieldAgrees(row.cumulative_weeks_in_top_10, entry.weeks_in_top_10)
    /\ entry.title = row.show_title

\* C11: parsing rows whose weekly_rank or cumulative_weeks_in_top_10 is empty,
\* non-numeric or absent does not raise, the entry of such a row has 0 in the
\* corresponding field, and a well-formed integer text is parsed to its value:
\* every row has an entry that agrees with it in the ranking of its category,
\* and every entry agrees with a row of that category.
C11_LenientNumbers ==
    pc = "parsed" =>
        /\ ~result.raised
        /\ \A i \in 1..Len(tsv_rows) : \E k \in 1..Len(result.value) :
              /\ result.value[k].category = CategorySlug(tsv_rows[i].category)
              /\ \E e \in 1..Len(result.value[k].rankings) :
                    EntryAgrees(tsv_rows[i], result.value[k].rankings[e])
        /\ \A k \in 1..Len(result.value) : \A e \in 1..Len(result.value[k].rankings) :
              \E i \in 1..Len(tsv_rows) :
                  /\ result.value[k].category = CategorySlug(tsv_rows[i].category)
                  /\ EntryAgrees(tsv_rows[i], result.value[k].rankings[e])

\* A non-numeric rank, a line that ends before weekly_rank, and rank "10" in
\* one export: entries of rank 0 and 10 come out.
C11_Witness ==
    /\ pc = "parsed" /\ ~result.raised /\ Len(tsv_rows) = 3
    /\ tsv_rows[1].weekly_rank = <<"1", "0">>
    /\ tsv_rows[2].weekly_rank = None
    /\ tsv_rows[3].weekly_rank = <<"1", ".", "5">>
    /\ Len(result.value) = 1
    /\ result.value[1].rankings[1].rank = 0
    /\ result.value[1].rankings[1].title = None
    /\ result.value[1].rankings[3].rank = 10

\* The rows of the export that belong to the returned value.
MemberRows(rows, ranking) ==
    {i \in 1..Len(rows) : /\ rows[i].week = ranking.week
                          /\ rows[i].country_name = ranking.country_name
                          /\ CategorySlug(rows[i].category) = ranking.category}

\* The place of member row i under a stable ascending sort by parsed rank: one
\* more than the members of smaller rank or of equal rank and earlier appearance.
StablePlace(rows, members, i) ==
    1 + Cardinality({j \in members :
                        \/ RankKey(rows[j]) < RankKey(rows[i])
                        \/ (RankKey(rows[j]) = RankKey(rows[i]) /\ j < i)})

\* C14: each returned CountryRanking holds exactly one entry per member row of
\* its group, in non-decreasing parsed rank, rows of equal parsed rank in
\* their order of appearance in the export.
C14_StableRankOrder ==
    pc = "parsed" =>
        /\ ~result.raised
        /\ \A k \in 1..Len(result.value) :
              LET ranking == result.value[k]
                  members == MemberRows(tsv_rows, ranking)
              IN  /\ Len(ranking.rankings) = Cardinality(members)
                  /\ \A i \in members :
                        ranking.rankings[StablePlace(tsv_rows, members, i)]
                            = RankingEntry(tsv_rows[i])
                  /\ \A e \in 1..(Len(ranking.rankings) - 1) :
                        ranking.rankings[e].rank <= ranking.rankings[e + 1].rank

\* Rank 10 first, then two rows of rank 1 that differ in their weeks: the
\* rank-1 rows come out first, in their order of appearance.
C14_Witness ==
    /\ pc = "parsed" /\ ~result.raised /\ Len(tsv_rows) = 3
    /\ tsv_rows[1].weekly_rank = <<"1", "0">>
    /\ tsv_rows[2] = Row(Japan, W_2026_02_01, Films, <<"1">>, <<"A">>, <<"-", "3">>)
    /\ tsv_rows[3] = Row(Japan, W_2026_02_01, Films, <<"1">>, <<"A">>, <<"1", "0">>)
    /\ Len(result.value) = 1
    /\ result.value[1].rankings[1].weeks_in_top_10 = 0 - 3
    /\ result.value[1].rankings[2].weeks_in_top_10 = 10
    /\ result.value[1].rankings[3].rank = 10

----------------------------------------------------------------------------
(* The tracked-country filter of _parse_countries_tsv, checked under SpecTracked *)

\* Whether the week filters of the parser keep row i of the export.
WeekRetained(rows, target, i) ==
    IF target = None THEN rows[i].week = MaxWeek(rows)
    ELSE IF target = <<>> THEN TRUE
    ELSE rows[i].week = target

\* The number of entries over all returned values.
RECURSIVE TotalEntries(_)
TotalEntries(rankings) ==
    IF rankings = <<>> THEN 0
    ELSE Len(Head(rankings).rankings) + TotalEntries(Tail(rankings))

\* C13: every returned CountryRanking has a country_name that is a key of
\* TRACKED_COUNTRIES; rows of other countries raise nothing and add no entry:
\* the entries are as many as the rows of tracked countries the week filters keep.
C13_TrackedOnly ==
    pc = "parsed" =>
        /\ ~result.raised
        /\ \A k \in 1..Len(result.value) :
              result.value[k].country_name \in DOMAIN TRACKED_COUNTRIES
        /\ TotalEntries(result.value) =
              Cardinality({i \in 1..Len(tsv_rows) :
                              /\ tsv_rows[i].country_name \in DOMAIN TRACKED_COUNTRIES
                              /\ WeekRetained(tsv_rows, target_week, i)})

\* A row of an untracked country and a row with the tracked name in lower
\* case on the target week, before a row of the tracked country: one entry.
C13_Witness ==
    /\ pc = "parsed" /\ target_week = W_2026_02_01 /\ Len(tsv_rows) = 3
    /\ tsv_rows[1].country_name = Peru /\ tsv_rows[1].week = W_2026_02_01
    /\ tsv_rows[2].country_name = japan /\ tsv_rows[2].week = W_2026_02_01
    /\ tsv_rows[3].country_name = Japan /\ tsv_rows[3].week = W_2026_02_01
    /\ ~result.raised
    /\ Len(result.value) = 1
    /\ TotalEntries(result.value) = 1

----------------------------------------------------------------------------
(* Properties of lambda_handler, checked under SpecHandler *)

\* How often the running call has made the named call.
CountCalls(name) == Cardinality({i \in 1..Len(calls) : calls[i] = name})

\* The rankings of the fetched result that have a validation error / have none.
InvalidFetched == {i \in 1..Len(fetched.rankings) : ValidateRanking(fetched.rankings[i]).errors # <<>>}
ValidFetched == (1..Len(fetched.rankings)) \ InvalidFetched

\* C15: every invocation, on every exit path (configuration error, empty
\* fetch result, storage failure, partial failure, success), attempts to append
\* exactly one audit record before it returns: it has reached the audit write of
\* _finish_run once (save_scrape_run, or the get_database before it when that
\* raises) and this is the last thing it did.
C15_AuditOnEveryExit ==
    pc = "h_returned" =>
        /\ CountCalls("save_scrape_run") <= 1
        /\ \/ calls[Len(calls)] = "save_scrape_run"
           \/ (mongo_fault = "get_database" /\ calls[Len(calls)] = "get_database")

\* C16: a ranking for which validate_ranking reports an error is never
\* passed to save_rankings by lambda_handler.
C16_InvalidNeverStored ==
    \A c \in 1..Len(save_args) : \A j \in 1..Len(save_args[c]) :
        ValidateRanking(save_args[c][j]).errors = <<>>

\* Whether every validation error message of the fetched rankings is among
\* the errors of the response.
ValidationReported ==
    \A i \in InvalidFetched :
        Range(ValidateRanking(fetched.rankings[i]).errors) \subseteq Range(result.body.errors)

\* Whether one save_rankings call of the run was given every fetched ranking
\* that has no validation error.
ValidPassed ==
    \E c \in 1..Len(save_args) :
        \A i \in ValidFetched : fetched.rankings[i] \in Range(save_args[c])

\* A run that loaded its configuration, fetched rankings, and found a
\* validation error in one of them.
ValidationFailedRun ==
    /\ pc = "h_returned"
    /\ ~LoadConfig(env_uri).raised
    /\ fetched.rankings # <<>>
    /\ InvalidFetched # {}

C18_OutcomeMapping ==
    (pc = "h_returned" /\ ~LoadConfig(env_uri).raised) =>
        LET body == result.body
            nonEmpty == fetched.rankings # <<>>
            storageOk == mongo_fault = "none"
        IN  /\ body.status \in {"success", "partial_failure", "failure"}
            /\ result.statusCode = (IF body.status = "failure" THEN 500 ELSE 200)
            /\ body.status = "success" <=> (nonEmpty /\ InvalidFetched = {} /\ storageOk)
            /\ (nonEmpty /\ storageOk /\ InvalidFetched # {}) => body.status = "partial_failure"
            /\ (~nonEmpty \/ ~storageOk) => (body.status = "failure" /\ body.saved = 0)

\* A partial failure that saved two documents answers 200.
C18_Witness ==
    /\ pc = "h_returned" /\ ~LoadConfig(env_uri).raised
    /\ result.body.status = "partial_failure"
    /\ result.statusCode = 200
    /\ result.body.saved = 2

\* C19: if MONGODB_URI is missing (unset or empty) or its scheme is neither
\* mongodb nor mongodb+srv, load_config raises ValueError and lambda_handler
\* returns statusCode 500 with an "error" field in the body, having made no
\* call but load_config: no fetch, no validation, no write to either collection.
C19_ConfigErrorStopsRun ==
    (/\ pc = "h_returned"
     /\ \/ env_uri \in {None, <<>>}
        \/ UrlScheme(env_uri) \notin {MongoDbScheme, MongoDbSrvScheme}) =>
        /\ LoadConfig(env_uri).raised /\ LoadConfig(env_uri).exc = "ValueError"
        /\ result.statusCode = 500
        /\ "error" \in DOMAIN result.body
        /\ calls = <<"load_config">>
        /\ save_args = <<>> /\ runs_coll = <<>>
        /\ \E store \in EarlierStores : rankings_coll = store.coll /\ indexes = store.indexes

\* An http:// URI in a run that would have fetched rankings and stored them.
C19_Witness ==
    /\ pc = "h_returned"
    /\ env_uri = <<"h","t","t","p",":","/","/","h">>
    /\ fetched.rankings # <<>> /\ mongo_fault = "none"
    /\ result = ErrorResponse(InvalidSchemeMsg(<<"h","t","t","p">>))

----------------------------------------------------------------------------
(* Properties of RankingsRepository.save_rankings, checked under SpecRepo *)

\* C20: after any sequence of save_rankings calls the rankings collection
\* holds at most one document per (week, country, category); a call with an
\* empty tuple returns 0 and performs no write (bulk_write has run once per
\* non-empty call and not otherwise).
C20_OneDocumentPerKey ==
    pc = "repo" =>
        /\ \A i \in 1..Len(rankings_coll) : \A j \in 1..Len(rankings_coll) :
              (/\ rankings_coll[i].week = rankings_coll[j].week
               /\ rankings_coll[i].country = rankings_coll[j].country
               /\ rankings_coll[i].category = rankings_coll[j].category) => i = j
        /\ CountCalls("bulk_write") =
              Cardinality({c \in 1..Len(save_args) : save_args[c] # <<>>})
        /\ (save_args # <<>> /\ save_args[Len(save_args)] = <<>>) => result = 0

\* A batch that gives the films key twice, from two fetches, saved two times
\* over on a collection that holds the tv ranking: four upserts of one key
\* leave one films document beside the tv one.
C20_Witness ==
    /\ pc = "repo" /\ Len(save_args) = 2
    /\ save_args[1] = save_args[2] /\ Len(save_args[1]) = 2
    /\ save_args[1][1].fetched_at # save_args[1][2].fetched_at
    /\ CountCalls("bulk_write") = 2
    /\ Len(rankings_coll) = 2
    /\ rankings_coll[1].category = <<"t", "v">>
    /\ rankings_coll[2].category = films

----------------------------------------------------------------------------
(* Properties of validate_ranking, checked under SpecValidate *)

\* The ranking given to the validator and the result for it.
Validated == fetched.rankings[1]
Validation == result[1]

\* The three defects the claim lists as hard errors, read off the ranking.
RankOutOfRange(r) == \E i \in 1..Len(r.rankings) : r.rankings[i].rank < 1 \/ r.rankings[i].rank > 10
TitleEmpty(r) ==
    \E i \in 1..Len(r.rankings) : \A c \in 1..Len(r.rankings[i].title) : r.rankings[i].title[c] = " "
RankRepeated(r) ==
    \E i \in 1..Len(r.rankings) : \E j \in 1..Len(r.rankings) :
        i # j /\ r.rankings[i].rank = r.rankings[j].rank
HardDefect(r) == RankOutOfRange(r) \/ TitleEmpty(r) \/ RankRepeated(r)

\* Whether a message that says what is among the messages.
Says(messages, what) == \E i \in 1..Len(messages) : messages[i][1] = what

\* The messages of the three hard defects go with the defects, as errors.
HardDefectsAreErrors ==
    /\ Says(Validation.errors, "rank out of range [1-10]") <=> RankOutOfRange(Validated)
    /\ Says(Validation.errors, "empty title") <=> TitleEmpty(Validated)
    /\ Says(Validation.errors, "duplicate rank") <=> RankRepeated(Validated)

\* No message of the three soft defects is among the errors.
SoftDefectsAreNoErrors ==
    /\ ~Says(Validation.errors, "expected 10 entries")
    /\ ~Says(Validation.errors, "unexpected category")
    /\ ~Says(Validation.errors, "week is unknown")

\* C21 as stated: a rank outside 1..10, an empty or blank title and a repeated
\* rank are hard errors; an entry count other than 10, a category outside
\* {films, tv} and the week "unknown" are warnings only; valid is true exactly
\* when errors is empty, so a ranking with none of the three hard defects is valid.
C21_Classification ==
    pc = "validated" =>
        /\ HardDefectsAreErrors /\ SoftDefectsAreNoErrors
        /\ Validation.valid <=> (Validation.errors = <<>>)
        /\ Validation.valid <=> ~HardDefect(Validated)
        /\ Len(Validated.rankings) # 10 => Says(Validation.warnings, "expected 10 entries")
        /\ Validated.category \notin {films, <<"t", "v">>} =>
              Says(Validation.warnings, "unexpected category")
        /\ Validated.week = unknown => Says(Validation.warnings, "week is unknown")

\* C21 amended: as stated for a ranking with at least one entry; a ranking
\* with no entry is invalid with the one error "no ranking entries" and no warning.
C21_ClassificationNonEmpty ==
    pc = "validated" =>
        /\ Validation.valid <=> (Validation.errors = <<>>)
        /\ SoftDefectsAreNoErrors
        /\ IF Validated.rankings = <<>>
           THEN /\ ~Validation.valid
                /\ Len(Validation.errors) = 1 /\ Says(Validation.errors, "no ranking entries")
                /\ Validation.warnings = <<>>
           ELSE /\ HardDefectsAreErrors
                /\ Validation.valid <=> ~HardDefect(Validated)
                /\ Len(Validated.rankings) # 10 <=> Says(Validation.warnings, "expected 10 entries")
                /\ Validated.category \notin {films, <<"t", "v">>} <=>
                      Says(Validation.warnings, "unexpected category")
                /\ Validated.week = unknown <=> Says(Validation.warnings, "week is unknown")

\* One sound entry under another category and the week "unknown": the three
\* warnings and no error, so the ranking is valid.
C21_Witness ==
    /\ pc = "validated"
    /\ Validated.rankings = <<Entry(1, <<"A">>, 1)>>
    /\ Validated.category = <<"k","i","d","s">> /\ Validated.week = unknown
    /\ Validation.valid /\ Validation.errors = <<>>
    /\ Len(Validation.warnings) = 3

\* The pages of the sweep whose request failed, and those that were fetched.
FailedPages == {i \in 1..Len(html_pages) : html_pages[i].outcome # "ok"}
FetchedPages == {i \in 1..Len(html_pages) : html_pages[i].outcome = "ok"}

\* The ranking of page i is among the given rankings.
PageReturned(rankings, i) ==
    \E k \in 1..Len(rankings) :
        /\ rankings[k].country_name = html_pages[i].country_name
        /\ rankings[k].category = html_pages[i].category
        /\ rankings[k].source = "html_fallback"

\* C22: when the sweep fetched at least one page and another page's request
\* failed, the fallback is not aborted: fetch_all_countries returns one
\* ranking per fetched page, and a fetch_rankings call that reached the
\* fallback returns exactly those rankings with source_used "html_fallback",
\* never the empty "none" result.
C22_PageFailureTolerated ==
    (FetchedPages # {} /\ FailedPages # {}) =>
        /\ ~html_outcome.raised
        /\ Len(html_outcome.value) = Cardinality(FetchedPages)
        /\ \A i \in FetchedPages : PageReturned(html_outcome.value, i)
        /\ pc # "exhausted"
        /\ (pc = "returned" /\ "fetch_all_countries" \in Range(calls)) =>
               /\ result.source_used = "html_fallback"
               /\ Len(result.rankings) = Cardinality(FetchedPages)
               /\ \A i \in FetchedPages : PageReturned(result.rankings, i)

\* C22 witness: the first page failed, a later page was fetched, and the
\* call returned after the fallback.
C22_Witness ==
    /\ pc = "returned"
    /\ "fetch_all_countries" \in Range(calls)
    /\ 1 \in FailedPages
    /\ FetchedPages # {}
    /\ result.source_used = "html_fallback"

\* The responses lambda_handler can return for the inputs of this run once
\* the configuration is loaded, whatever becomes of the audit write.
AuditFreeResponses ==
    IF fetched.rankings = <<>>
    THEN {RunResponse("failure", fetched.source_used, 0, fetched.errors)}
    ELSE IF mongo_fault # "none"
    THEN {RunResponse("failure", fetched.source_used, 0,
                      ValidationErrors(fetched.rankings) \o <<StorageFailedMsg>>)}
    ELSE {LET st == BulkWrite(rankings_coll, fetched.rankings, p)
              errs == ValidationErrors(fetched.rankings)
          IN  RunResponse(IF errs # <<>> THEN "partial_failure" ELSE "success",
                          fetched.source_used,
                          st.upserted_count + st.modified_count, errs) :
            p \in ExecutionOrders(Len(fetched.rankings))}

\* C23: the response of a run that reaches _finish_run is fixed by the
\* inputs other than the audit write: it is the same single response
\* (statusCode, run_id, status, source_used, saved, errors) whether the audit
\* write succeeds or raises PyMongoError, and a failed audit write leaves
\* scrape_runs as it was.
C23_AuditFailureSwallowed ==
    [][(pc = "h_start" /\ pc' = "h_returned" /\ ~LoadConfig(env_uri).raised) =>
          /\ Cardinality(AuditFreeResponses) = 1
          /\ result' \in AuditFreeResponses
          /\ (audit_fault => runs_coll' = runs_coll)
          /\ (~audit_fault /\ mongo_fault # "get_database" =>
                 /\ Len(runs_coll') = Len(runs_coll) + 1
                 /\ runs_coll'[Len(runs_coll')].status = result'.body.status
                 /\ runs_coll'[Len(runs_coll')].errors = result'.body.errors)]_vars

\* C23 witness: the audit write was attempted and failed, nothing was
\* recorded, and the run answered 200 with status "success".
C23_Witness ==
    /\ pc = "h_returned"
    /\ audit_fault
    /\ "save_scrape_run" \in Range(calls)
    /\ runs_coll = <<>>
    /\ result.statusCode = 200
    /\ result.body.status = "success"

\* C24: every ScrapeResult fetch_rankings returns has source_used "tsv",
\* "html_fallback" or "none"; its rankings are empty exactly when source_used
\* is "none"; and it carries no error message for "tsv", exactly one for
\* "html_fallback" and exactly two for "none".
C24_ResultShape ==
    pc = "returned" =>
        /\ result.source_used \in {"tsv", "html_fallback", "none"}
        /\ (result.rankings = <<>>) <=> (result.source_used = "none")
        /\ Len(result.errors) = CASE result.source_used = "tsv" -> 0
                                   [] result.source_used = "html_fallback" -> 1
                                   [] OTHER -> 2

\* C24 witness: the export request raised, the page scrape returned nothing,
\* and the call returned the "none" result with its two messages.
C24_Witness ==
    /\ pc = "returned"
    /\ TsvOutcome.raised
    /\ ~html_outcome.raised /\ html_outcome.value = <<>>
    /\ result.source_used = "none"
    /\ result.rankings = <<>>
    /\ Len(result.errors) = 2

\* The call a step of the container makes, and the config URI it is given.
CallMade == calls'[Len(calls) + 1]

\* C25: a MongoClient is built only by a get_database call made while no
\* client is held; at most one client is open at any time, and it is the held
\* one; a get_database call made while a client is held uses that client,
\* also when its config URI differs from the client's; close_connection closes
\* and drops the held client, and with none held it changes nothing.
C25_SingleClient ==
    [][/\ Cardinality(open_clients') <= 1
       /\ open_clients' = (IF client' = None THEN {} ELSE {client'})
       /\ (ClientsMade' # ClientsMade) =>
              /\ CallMade[1] = "get_database"
              /\ client = None
              /\ ClientsMade' = ClientsMade + 1
       /\ (CallMade[1] = "get_database" /\ client # None) =>
              /\ client' = client
              /\ open_clients' = open_clients
              /\ result' = Returned(Database(client, DatabaseName))
       /\ (CallMade[1] = "close_connection") =>
              /\ client' = None
              /\ client = None => open_clients' = open_clients]_vars

\* C25 witness: after a close a second client was built, and a later
\* get_database with the other URI was answered on that second client.
C25_Witness ==
    /\ client # None
    /\ client[2] = 2
    /\ ClientsMade = 2
    /\ calls[Len(calls)][1] = "get_database"
    /\ calls[Len(calls)][2] # client[3]
    /\ result = Returned(Database(client, DatabaseName))
    /\ open_clients = {client}

\* C26: for every tracked country named in the export, the parser returns a
\* CountryRanking of that name, and the country of every CountryRanking it
\* returns is the slug the tracked-country table maps its country_name to.
C26_SlugMatchesTable ==
    pc = "parsed" =>
        /\ ~result.raised
        /\ \A i \in 1..Len(tsv_rows) : \E k \in 1..Len(result.value) :
               result.value[k].country_name = tsv_rows[i].country_name
        /\ \A k \in 1..Len(result.value) :
               /\ result.value[k].country_name \in DOMAIN TRACKED_COUNTRIES
               /\ result.value[k].country =
                      TRACKED_COUNTRIES[result.value[k].country_name]

\* C26 witness: the export named two countries whose names hold a blank, and
\* the parser returned both with the hyphenated slugs of the table.
C26_Witness ==
    /\ pc = "parsed"
    /\ Len(result.value) = 2
    /\ \E k \in 1..2 : /\ result.value[k].country_name = UnitedStates
                        /\ result.value[k].country =
                               <<"u","n","i","t","e","d","-","s","t","a","t","e","s">>
    /\ \E k \in 1..2 : /\ result.value[k].country_name = HongKong
                        /\ result.value[k].country =
                               <<"h","o","n","g","-","k","o","n","g">>

\* The errors lists a finished run shows: in its response and, when the audit
\* write went through, in its audit record.
ShownErrors ==
    {result.body.errors} \cup {runs_coll[i].errors : i \in 1..Len(runs_coll)}

====
